---- MODULE Spec2Model ----
(***************************************************************************)
(* Fluid simulation example (src/src/examples/fluid_simulation.c):         *)
(* the DynamicBuffer, the uniform slots, the field registry, the dimension *)
(* validation, init_sizes, the render program and the simulation tick, as  *)
(* a state machine over the host-side structs, the device memory and the   *)
(* per-frame command encoder; the frame loop of the boids example          *)
(* (src/unnamed/part_000); and the buffer creation of the Blinn-Phong      *)
(* example (src/src/examples/blinn_phong.c).                               *)
(*                                                                         *)
(* Conventions                                                             *)
(*  - a WGPUBuffer handle is the index of the buffer object in `gpu`;      *)
(*    0 is the NULL handle (structs are zero-initialised statics).         *)
(*  - a host pointer to float data is "NULL" (NullPtr) or a record holding *)
(*    the pointed-to bytes.                                                *)
(*  - uint32_t products stay below 2^31 within the bounds used here, so    *)
(*    the arithmetic is written without the reduction modulo 2^32; the one *)
(*    place where a uint32_t wraps inside the bounds (dims - 1 with        *)
(*    dims = 0) is written out in ChannelIndex.                            *)
(***************************************************************************)
EXTENDS Integers, Sequences, FiniteSets, TLC

VARIABLES
  settings,         \* static settings: grid_w, grid_h, dye_w, dye_h
  dynamic_buffers,  \* static dynamic_buffers: field name -> dynamic_buffer_t
  uniforms,         \* static uniforms: slot name -> uniform_t
  gpu,              \* device memory: sequence of buffer objects, handle = index
  encoder,          \* commands recorded on the frame's command encoder
  inited,           \* the fields dynamic_buffer_init has been called on
  oob,              \* stores made outside the 3-entry buffers array
  aborted,          \* the process was terminated (failed assert, crash)
  last,             \* the last host call and the API calls it issued
  request,          \* arguments of get_valid_dimensions
  extent,           \* WGPUExtent3D returned by get_valid_dimensions
  wgpu_context,     \* wgpu_context: the surface size and the adapter's limits
  render_program,   \* static render_program: vertex buffer, bind group, view
  boids,            \* boids example: prepared, particle buffers, bind groups,
                    \* context->frame.index
  blinn,            \* Blinn-Phong example: arguments and result of
                    \* create_buffer_with_data
  sim,              \* simulation tick: ticks issued, position in the tick,
                    \* passes enqueued by the tick in progress
  particles,        \* boids example: loop counter of the particle
                    \* initialisation and the elements it has assigned
  pbr               \* PBR example: host selections, uniform buffer contents,
                    \* prepared flag and position in the frame

vars == <<settings, dynamic_buffers, uniforms, gpu, encoder, inited, oob,
          aborted, last, request, extent, wgpu_context, render_program, boids,
          blinn, sim, particles, pbr>>

----------------------------------------------------------------------------
(* Bounds of the model *)

MaxDimsArg == 4      \* channel counts 0 .. MaxDimsArg are passed to init
MaxW == 2            \* field widths up to MaxW (heights too, in the registry)
MaxCmds == 3         \* at most this many commands wait on the encoder
MaxUSize == 2        \* uniform element counts 0 .. MaxUSize
MaxValue == 2        \* host values are filled with a byte of 1 .. MaxValue
MaxReq == 4          \* requested widths and heights 1 .. MaxReq
MaxBufferSize == 40  \* device limits max_buffer_size 0 .. MaxBufferSize
MaxCanvasSize == 5   \* device limits max_canvas_size 0 .. MaxCanvasSize
MaxSurface == 17     \* window surface widths and heights 0 .. MaxSurface
MaxFrames == 120     \* the boids run loop renders frames 0 .. MaxFrames - 1
MaxTicks == 2        \* simulation ticks issued
MaxElems == 3        \* create_buffer_with_data gets 1 .. MaxElems 4-byte elements
MaxParamSteps == 1   \* PBR: exposure and gamma stay within this many 0.1
                     \* steps of their defaults

(* Program constants *)

MAX_DIMENSIONS == 3
grid_size == 512     \* settings.grid_size
dye_size == 2048     \* settings.dye_size
pressure_iterations == 100  \* settings.pressure_iterations
NUM_PARTICLES == 1500       \* boids: number of particles
SINGLE_ROW_OBJECT_COUNT == 10  \* PBR: objects drawn in a row
ALIGNMENT == 256            \* PBR: dynamic offset alignment in bytes

----------------------------------------------------------------------------
(* Helpers *)

Min(a, b) == IF a < b THEN a ELSE b
Max(a, b) == IF a > b THEN a ELSE b

Zeros(n) == [i \in 1..n |-> 0]
Fill(n, v) == [i \in 1..n |-> v]

NullHandle == 0

NullBuffer == [buffer |-> NullHandle, size |-> 0]

Fields == {"velocity", "velocity0", "dye", "dye0", "divergence",
           "divergence0", "pressure", "pressure0", "vorticity", "rgb_buffer"}

\* The two DynamicBuffers the copy / clear harness works on, and the
\* resolutions it creates them with.
Harness == {"velocity", "dye"}
Widths == 1..MaxW
Heights == {1}

\* dynamic_buffer_init_defaults: memset(this, 0, sizeof(*this))
dynamic_buffer_init_defaults ==
  [dims |-> 0, buffer_size |-> 0, w |-> 0, h |-> 0,
   buffers |-> [i \in 0..(MAX_DIMENSIONS - 1) |-> NullBuffer]]

UniformNames == {"time", "dt", "mouse", "grid", "sim_speed", "vel_force",
                 "vel_radius", "vel_diff", "dye_force", "dye_radius",
                 "dye_diff", "viscosity", "u_vorticity", "contain_fluid",
                 "u_symmetry", "u_render_intensity", "u_render_dye"}

\* The UniformSlots the init / update harness works on.
UHarness == {"time", "mouse"}

\* uniform_init_defaults: memset(this, 0, sizeof(*this)); the statics start
\* zeroed.  type 0 is UNIFORM_TIME.
uniform_init_defaults ==
  [type |-> 0, size |-> 0, always_update |-> FALSE, needs_update |-> FALSE,
   buffer |-> NullBuffer]

\* Host pointers to float data (4 bytes per element).
NullPtr == [null |-> TRUE, bytes |-> <<>>]
Ptr(bytes) == [null |-> FALSE, bytes |-> bytes]
Values(size) == {NullPtr} \cup {Ptr(Fill(size * 4, v)) : v \in 1..MaxValue}

NoCall == [op |-> "none", this |-> "", other |-> "", calls |-> <<>>, ok |-> TRUE,
           pre |-> "none"]

----------------------------------------------------------------------------
(* Device: buffer objects, queue writes, copies *)

StorageUsage == {"Storage", "CopySrc", "CopyDst"}
UniformUsage == {"Uniform", "CopyDst"}

\* wgpuDeviceCreateBuffer(size, usage): a fresh zero-filled buffer object.
\* `released` counts the wgpuBufferRelease calls made on the object.
NewBuffer(size, usage) ==
  [size |-> size, usage |-> usage, data |-> Zeros(size), released |-> 0]

ValidHandle(mem, h) == h \in 1..Len(mem)

\* A range [off, off+n) lies inside buffer h.
InRange(mem, h, off, n) == ValidHandle(mem, h) /\ off + n <= mem[h].size

\* wgpuQueueWriteBuffer(buffer h, offset off, data bytes, size n) with valid
\* arguments: the first n bytes of `bytes` land at off .. off+n-1.
WriteBytes(mem, h, off, bytes, n) ==
  [mem EXCEPT ![h].data =
     [i \in 1..mem[h].size |->
        IF i > off /\ i <= off + n THEN bytes[i - off] ELSE @[i]]]

\* One recorded wgpuCommandEncoderCopyBufferToBuffer command is valid when
\* both ranges lie inside their buffers and the buffers differ.
CopyValid(mem, c) ==
  /\ InRange(mem, c.src, c.src_offset, c.size)
  /\ InRange(mem, c.dst, c.dst_offset, c.size)
  /\ c.src # c.dst

ExecCopy(mem, c) ==
  [mem EXCEPT ![c.dst].data =
     [i \in 1..mem[c.dst].size |->
        IF i > c.dst_offset /\ i <= c.dst_offset + c.size
        THEN mem[c.src].data[i - c.dst_offset + c.src_offset] ELSE @[i]]]

\* The storage bindings the render shader stores to: fieldX, fieldY and
\* fieldZ (bindings 0, 1, 2) are declared read_write, but vertex_main and
\* fragment_main only load from them.
ShaderStores_fieldX == {0}
ShaderStores == {}

\* A recorded render pass draws with the bind group it was recorded with: a
\* binding the shader stores to has its buffer overwritten (here: with 255).
RECURSIVE StoreBindings(_, _, _)
StoreBindings(mem, bind_group, stores) ==
  IF stores = {} THEN mem
  ELSE LET b == CHOOSE x \in stores : TRUE
           h == bind_group[b + 1]
       IN  StoreBindings(IF ValidHandle(mem, h)
                         THEN [mem EXCEPT ![h].data = Fill(mem[h].size, 255)]
                         ELSE mem,
                         bind_group, stores \ {b})

ExecRenderPass(mem, c) == StoreBindings(mem, c.bind_group, ShaderStores)

CommandValid(mem, c) ==
  IF c.api = "CopyBufferToBuffer" THEN CopyValid(mem, c) ELSE TRUE

ExecCommand(mem, c) ==
  IF c.api = "CopyBufferToBuffer" THEN ExecCopy(mem, c) ELSE ExecRenderPass(mem, c)

RECURSIVE ExecAll(_, _)
ExecAll(mem, cmds) ==
  IF cmds = <<>> THEN mem ELSE ExecAll(ExecCommand(mem, Head(cmds)), Tail(cmds))

----------------------------------------------------------------------------
(* DynamicBuffer *)

\* assert(dims <= MAX_DIMENSIONS)
AssertDims_removed(dims) == TRUE
AssertDims(dims) == dims <= MAX_DIMENSIONS

\* The element of this->buffers read at index idx; an index outside the
\* array reads no buffer of this DynamicBuffer.
BufferAt(db, idx) ==
  IF idx \in 0..(MAX_DIMENSIONS - 1) THEN db.buffers[idx] ELSE NullBuffer

\* dynamic_buffer_init(this, wgpu_context, dims, w, h), as the values of the
\* struct, the device memory, the out-of-array stores and the abort flag
\* after the call.
dynamic_buffer_init_result(mem, this, dims, w, h) ==
  LET size    == w * h * 4
      passed  == AssertDims(dims)
      created == IF passed THEN dims ELSE 0
      base    == Len(mem)
      handles == [i \in 0..(created - 1) |-> [buffer |-> base + i + 1, size |-> size]]
  IN  [db  |-> [dims |-> dims, buffer_size |-> size, w |-> w, h |-> h,
                buffers |-> [i \in 0..(MAX_DIMENSIONS - 1) |->
                               IF i < created THEN handles[i] ELSE NullBuffer]],
       mem |-> mem \o [i \in 1..created |-> NewBuffer(size, StorageUsage)],
       oob |-> {<<this, i>> : i \in MAX_DIMENSIONS..(created - 1)},
       calls |-> [i \in 1..created |->
                    [api |-> "CreateBuffer", index |-> i - 1, buffer |-> base + i,
                     size |-> size]],
       aborted |-> ~passed]

dynamic_buffer_init(this, dims, w, h) ==
  /\ ~aborted
  /\ this \notin inited
  /\ inited' = inited \cup {this}
  /\ LET r == dynamic_buffer_init_result(gpu, this, dims, w, h)
     IN  /\ dynamic_buffers' = [dynamic_buffers EXCEPT ![this] = r.db]
         /\ gpu' = r.mem
         /\ oob' = oob \cup r.oob
         /\ aborted' = r.aborted
         /\ last' = [op |-> "dynamic_buffer_init", this |-> this, other |-> "",
                     calls |-> r.calls, ok |-> ~r.aborted,
                     pre |-> "none"]
  /\ UNCHANGED <<pbr, particles, sim, blinn, boids, render_program, wgpu_context, settings, uniforms, encoder, request, extent>>

\* Loop bound of dynamic_buffer_copy_to: MAX(this->dims, buffer->dims)
CopyCount_min(d1, d2) == Min(d1, d2)
CopyCount(d1, d2) == Max(d1, d2)

\* MIN(i, dims - 1) on uint32_t: dims - 1 wraps to 2^32 - 1 when dims = 0.
ChannelIndex(i, dims) == IF dims = 0 THEN i ELSE Min(i, dims - 1)

\* The size argument of every recorded copy: this->buffer_size
CopySize(this_db, buffer_db) == this_db.buffer_size

\* The commands dynamic_buffer_copy_to(this, buffer, command_encoder) records.
CopyCommands_reversed(this_db, buffer_db) ==
  [k \in 1..CopyCount(this_db.dims, buffer_db.dims) |->
     [api        |-> "CopyBufferToBuffer",
      src        |-> BufferAt(buffer_db, ChannelIndex(k - 1, buffer_db.dims)).buffer,
      src_offset |-> 0,
      dst        |-> BufferAt(this_db, ChannelIndex(k - 1, this_db.dims)).buffer,
      dst_offset |-> 0,
      size       |-> CopySize(this_db, buffer_db)]]
CopyCommands(this_db, buffer_db) ==
  [k \in 1..CopyCount(this_db.dims, buffer_db.dims) |->
     [api        |-> "CopyBufferToBuffer",
      src        |-> BufferAt(this_db, ChannelIndex(k - 1, this_db.dims)).buffer,
      src_offset |-> 0,
      dst        |-> BufferAt(buffer_db, ChannelIndex(k - 1, buffer_db.dims)).buffer,
      dst_offset |-> 0,
      size       |-> CopySize(this_db, buffer_db)]]

dynamic_buffer_copy_to_immediate(this, buffer) ==
  /\ ~aborted
  /\ LET cmds == CopyCommands(dynamic_buffers[this], dynamic_buffers[buffer])
     IN  /\ Len(encoder) + Len(cmds) <= MaxCmds
         /\ gpu' = IF \A k \in 1..Len(cmds) : CopyValid(gpu, cmds[k])
                   THEN ExecAll(gpu, cmds) ELSE gpu
         /\ last' = [op |-> "dynamic_buffer_copy_to", this |-> this,
                     other |-> buffer, calls |-> cmds, ok |-> TRUE,
                     pre |-> [gpu |-> gpu, encoder |-> encoder]]
  /\ UNCHANGED <<pbr, particles, sim, blinn, boids, render_program, wgpu_context, settings, dynamic_buffers, uniforms, encoder,
                 inited, oob, aborted, request, extent>>
dynamic_buffer_copy_to(this, buffer) ==
  /\ ~aborted
  /\ LET cmds == CopyCommands(dynamic_buffers[this], dynamic_buffers[buffer])
     IN  /\ Len(encoder) + Len(cmds) <= MaxCmds
         /\ encoder' = encoder \o cmds
         /\ last' = [op |-> "dynamic_buffer_copy_to", this |-> this,
                     other |-> buffer, calls |-> cmds, ok |-> TRUE,
                     pre |-> [gpu |-> gpu, encoder |-> encoder]]
  /\ UNCHANGED <<pbr, particles, sim, blinn, boids, render_program, wgpu_context, settings, dynamic_buffers, uniforms, gpu, inited, oob,
                 aborted, request, extent>>

\* The queue writes dynamic_buffer_clear(this) issues: one zero-filled
\* staging region of buffer_size bytes per channel.
ClearWrites_first_only(db) ==
  [k \in 1..Min(db.dims, 1) |->
     [api |-> "QueueWriteBuffer", buffer |-> BufferAt(db, k - 1).buffer,
      offset |-> 0, data |-> Zeros(db.buffer_size), size |-> db.buffer_size]]
ClearWrites(db) ==
  [k \in 1..db.dims |->
     [api |-> "QueueWriteBuffer", buffer |-> BufferAt(db, k - 1).buffer,
      offset |-> 0, data |-> Zeros(db.buffer_size), size |-> db.buffer_size]]

\* Every byte of every one of the db.dims channel buffers is zero.
AllZero(mem, db) ==
  \A k \in 0..(db.dims - 1) :
    LET b == BufferAt(db, k).buffer
    IN  ValidHandle(mem, b) /\ \A i \in 1..mem[b].size : mem[b].data[i] = 0

RECURSIVE ApplyWrites(_, _)
ApplyWrites(mem, ws) ==
  IF ws = <<>> THEN mem
  ELSE LET c == Head(ws)
       IN  ApplyWrites(IF InRange(mem, c.buffer, c.offset, c.size)
                       THEN WriteBytes(mem, c.buffer, c.offset, c.data, c.size)
                       ELSE mem,
                       Tail(ws))

dynamic_buffer_clear(this) ==
  /\ ~aborted
  /\ LET ws == ClearWrites(dynamic_buffers[this])
     IN  /\ gpu' = ApplyWrites(gpu, ws)
         /\ last' = [op |-> "dynamic_buffer_clear", this |-> this, other |-> "",
                     calls |-> ws, ok |-> TRUE,
                     pre |-> IF AllZero(gpu, dynamic_buffers[this])
                             THEN "zero" ELSE "nonzero"]
  /\ UNCHANGED <<pbr, particles, sim, blinn, boids, render_program, wgpu_context, settings, dynamic_buffers, uniforms, encoder, inited, oob,
                 aborted, request, extent>>

\* wgpu_destroy_buffer(&buffer): the buffer object behind the handle is
\* released; a NULL handle releases nothing.
RECURSIVE ReleaseAll(_, _)
ReleaseAll(mem, calls) ==
  IF calls = <<>> THEN mem
  ELSE LET b == Head(calls).buffer
       IN  ReleaseAll(IF ValidHandle(mem, b)
                      THEN [mem EXCEPT ![b].released = @ + 1] ELSE mem,
                      Tail(calls))

\* Loop bound of dynamic_buffer_destroy: i < this->dims
DestroyCount_all_slots(db) == MAX_DIMENSIONS
DestroyCount(db) == db.dims

\* None of the channel buffers of db has been released.
Live(mem, db) ==
  \A i \in 0..(MAX_DIMENSIONS - 1) :
    ValidHandle(mem, db.buffers[i].buffer) => mem[db.buffers[i].buffer].released = 0

\* dynamic_buffer_destroy(this), called at teardown (no commands pending)
\* and at most once per DynamicBuffer.
dynamic_buffer_destroy(this) ==
  /\ ~aborted
  /\ this \in inited
  /\ encoder = <<>>
  /\ Live(gpu, dynamic_buffers[this])
  /\ LET db    == dynamic_buffers[this]
         calls == [k \in 1..DestroyCount(db) |->
                     [api |-> "BufferRelease", index |-> k - 1,
                      buffer |-> BufferAt(db, k - 1).buffer]]
     IN  /\ gpu' = ReleaseAll(gpu, calls)
         /\ oob' = oob \cup {<<this, i>> : i \in MAX_DIMENSIONS..(DestroyCount(db) - 1)}
         /\ last' = [op |-> "dynamic_buffer_destroy", this |-> this, other |-> "",
                     calls |-> calls, ok |-> TRUE, pre |-> [gpu |-> gpu]]
  /\ UNCHANGED <<pbr, particles, sim, blinn, boids, render_program, wgpu_context, settings, dynamic_buffers, uniforms, encoder,
                 inited, aborted, request, extent>>

\* A compute pass of the simulation writes one field: every byte of every
\* channel buffer of the field becomes the (non-zero) handle of that buffer.
RECURSIVE FillChannels(_, _, _)
FillChannels(mem, db, k) ==
  IF k = 0 THEN mem
  ELSE LET b == BufferAt(db, k - 1).buffer
       IN  FillChannels(IF ValidHandle(mem, b)
                        THEN [mem EXCEPT ![b].data = Fill(mem[b].size, b)]
                        ELSE mem,
                        db, k - 1)

ComputePassWrite(this) ==
  /\ ~aborted
  /\ dynamic_buffers[this].dims > 0
  /\ gpu' = FillChannels(gpu, dynamic_buffers[this], dynamic_buffers[this].dims)
  /\ last' = [op |-> "compute_pass", this |-> this, other |-> "", calls |-> <<>>,
              ok |-> TRUE, pre |-> "none"]
  /\ UNCHANGED <<pbr, particles, sim, blinn, boids, render_program, wgpu_context, settings, dynamic_buffers, uniforms, encoder, inited, oob,
                 aborted, request, extent>>

\* The frame's command buffer is finished and submitted: the recorded
\* commands execute in order.  If any recorded copy is invalid the encoder
\* is in error and none of its commands executes.
SubmitFrame ==
  /\ ~aborted
  /\ encoder # <<>>
  /\ LET valid == \A k \in 1..Len(encoder) : CommandValid(gpu, encoder[k])
     IN  /\ gpu' = IF valid THEN ExecAll(gpu, encoder) ELSE gpu
         /\ last' = [op |-> "submit", this |-> "", other |-> "",
                     calls |-> encoder, ok |-> valid,
                     pre |-> [gpu |-> gpu,
                              prev |-> [op |-> last.op, this |-> last.this]]]
  /\ encoder' = <<>>
  /\ UNCHANGED <<pbr, particles, sim, blinn, boids, render_program, wgpu_context, settings, dynamic_buffers, uniforms, inited, oob, aborted,
                 request, extent>>

----------------------------------------------------------------------------
(* Uniforms *)

\* uniform_type_t of the harness slots
UniformType(this) == IF this = "time" THEN 0 ELSE 2

\* this->always_update = (size == 1)
AlwaysUpdate_never(size) == FALSE
AlwaysUpdate_any(size) == size >= 1
AlwaysUpdate(size) == size = 1

\* if (this->size > 0 && value != NULL): the buffer is created
UniformAllocates(size, value) == size > 0 /\ ~value.null

\* .size = this->size * 4
UniformBufferBytes(size) == size * 4

\* wgpu_create_buffer(usage, size, initial.data): a buffer object holding
\* the first `size` bytes of the initial data.
NewBufferWithData(size, usage, bytes) ==
  [size |-> size, usage |-> usage,
   data |-> [i \in 1..size |-> IF i <= Len(bytes) THEN bytes[i] ELSE 0],
   released |-> 0]

uniform_init(this, size, value) ==
  /\ ~aborted
  /\ this \notin inited
  /\ inited' = inited \cup {this}
  /\ LET alloc == UniformAllocates(size, value)
         bytes == UniformBufferBytes(size)
         buf   == IF alloc THEN [buffer |-> Len(gpu) + 1, size |-> bytes]
                  ELSE uniforms[this].buffer
     IN  /\ uniforms' = [uniforms EXCEPT ![this] =
                           [type |-> UniformType(this), size |-> size,
                            always_update |-> AlwaysUpdate(size),
                            needs_update |-> FALSE, buffer |-> buf]]
         /\ gpu' = IF alloc
                   THEN Append(gpu, NewBufferWithData(bytes, UniformUsage, value.bytes))
                   ELSE gpu
         /\ last' = [op |-> "uniform_init", this |-> this, other |-> "",
                     calls |-> IF alloc
                               THEN <<[api |-> "CreateBuffer", buffer |-> Len(gpu) + 1,
                                       size |-> bytes]>>
                               ELSE <<>>,
                     ok |-> TRUE,
                     pre |-> [u |-> uniforms[this], gpu |-> gpu, value |-> value]]
  /\ UNCHANGED <<pbr, particles, sim, blinn, boids, render_program, wgpu_context, settings, dynamic_buffers, encoder, oob, aborted, request, extent>>

\* if (this->needs_update || this->always_update || value != NULL)
ShouldWrite_flags_only(u, value) == u.needs_update \/ u.always_update
ShouldWrite(u, value) == u.needs_update \/ u.always_update \/ ~value.null

\* The size argument of the queue write: this->size
UniformWriteSize(u) == u.size

\* The write reads a NULL pointer or targets a NULL buffer handle: the
\* behaviour is undefined (the process crashes, or the call has no effect).
WriteFaults(mem, u, value) ==
  \/ ~ValidHandle(mem, u.buffer.buffer)
  \/ value.null /\ UniformWriteSize(u) > 0

uniform_update(this, value) ==
  /\ ~aborted
  /\ LET u     == uniforms[this]
         write == ShouldWrite(u, value)
         n     == UniformWriteSize(u)
         fault == write /\ WriteFaults(gpu, u, value)
     IN  \E crash \in (IF fault THEN BOOLEAN ELSE {FALSE}) :
           /\ gpu' = IF write /\ ~fault /\ InRange(gpu, u.buffer.buffer, 0, n)
                     THEN WriteBytes(gpu, u.buffer.buffer, 0, value.bytes, n)
                     ELSE gpu
           /\ uniforms' = IF write /\ ~crash
                          THEN [uniforms EXCEPT ![this].needs_update = FALSE]
                          ELSE uniforms
           /\ aborted' = crash
           /\ last' = [op |-> "uniform_update", this |-> this, other |-> "",
                       calls |-> IF write
                                 THEN <<[api |-> "QueueWriteBuffer",
                                         buffer |-> u.buffer.buffer, offset |-> 0,
                                         data |-> value, size |-> n]>>
                                 ELSE <<>>,
                       ok |-> ~crash,
                       pre |-> [u |-> u, gpu |-> gpu, value |-> value]]
  /\ UNCHANGED <<pbr, particles, sim, blinn, boids, render_program, wgpu_context, settings, dynamic_buffers, encoder, inited, oob, request, extent>>

\* A caller that changed the value out of band marks the slot dirty.
SetNeedsUpdate(this) ==
  /\ ~aborted
  /\ this \in inited
  /\ ~uniforms[this].needs_update
  /\ uniforms' = [uniforms EXCEPT ![this].needs_update = TRUE]
  /\ last' = [op |-> "set_needs_update", this |-> this, other |-> "",
              calls |-> <<>>, ok |-> TRUE, pre |-> "none"]
  /\ UNCHANGED <<pbr, particles, sim, blinn, boids, render_program, wgpu_context, settings, dynamic_buffers, gpu, encoder, inited, oob, aborted,
                 request, extent>>

----------------------------------------------------------------------------
(* Field registry *)

\* The calls of dynamic_buffers_init in source order: field, channel count
\* and resolution (grid or dye).
RegistryInits ==
  << <<"velocity", 2, "grid">>, <<"velocity0", 2, "grid">>,
     <<"dye", 3, "dye">>, <<"dye0", 4, "dye">>,
     <<"divergence", 1, "grid">>, <<"divergence0", 1, "grid">>,
     <<"pressure", 1, "grid">>, <<"pressure0", 1, "grid">>,
     <<"vorticity", 1, "grid">> >>

RegistryFields == {RegistryInits[k][1] : k \in 1..Len(RegistryInits)}

ResolutionW(res) == IF res = "grid" THEN settings.grid_w ELSE settings.dye_w
ResolutionH(res) == IF res = "grid" THEN settings.grid_h ELSE settings.dye_h

\* The calls of dynamic_buffers_init from the k-th on, applied to the state
\* st = [dbs, mem, oob, inited, aborted]; a failed assert ends the process,
\* so the calls after it are not made.
RECURSIVE RunRegistryInits(_, _)
RunRegistryInits(st, k) ==
  IF k > Len(RegistryInits) \/ st.aborted THEN st
  ELSE LET c == RegistryInits[k]
           r == dynamic_buffer_init_result(st.mem, c[1], c[2],
                                           ResolutionW(c[3]), ResolutionH(c[3]))
       IN  RunRegistryInits([dbs     |-> [st.dbs EXCEPT ![c[1]] = r.db],
                             mem     |-> r.mem,
                             oob     |-> st.oob \cup r.oob,
                             inited  |-> st.inited \cup {c[1]},
                             aborted |-> r.aborted,
                             failed  |-> IF r.aborted THEN c[1] ELSE ""],
                            k + 1)

dynamic_buffers_init ==
  /\ ~aborted
  /\ inited \cap RegistryFields = {}
  /\ LET st == RunRegistryInits([dbs |-> dynamic_buffers, mem |-> gpu, oob |-> oob,
                                 inited |-> inited, aborted |-> FALSE,
                                 failed |-> ""], 1)
     IN  /\ dynamic_buffers' = st.dbs
         /\ gpu' = st.mem
         /\ oob' = st.oob
         /\ inited' = st.inited
         /\ aborted' = st.aborted
         /\ last' = [op |-> "dynamic_buffers_init", this |-> st.failed,
                     other |-> "", calls |-> <<>>, ok |-> ~st.aborted,
                     pre |-> "none"]
  /\ UNCHANGED <<pbr, particles, sim, blinn, boids, render_program, wgpu_context, settings, uniforms, encoder, request, extent>>

render_program_setup_rgb_buffer ==
  dynamic_buffer_init("rgb_buffer", 3, settings.dye_w, settings.dye_h)

----------------------------------------------------------------------------
(* Render program *)

\* float vertices[24]
VertexBytes == 96
\* struct GridSize: seven f32
GridUniformSize == 7

NoRenderProgram == [vertex_buffer |-> NullBuffer, render_bind_group |-> <<>>,
                    view |-> "NULL"]

\* render_program_prepare_vertex_buffer
render_program_prepare_vertex_buffer ==
  /\ ~aborted
  /\ render_program.vertex_buffer = NullBuffer
  /\ gpu' = Append(gpu, NewBufferWithData(VertexBytes, {"CopyDst", "Vertex"},
                                          Fill(VertexBytes, 1)))
  /\ render_program' = [render_program EXCEPT
                          !.vertex_buffer = [buffer |-> Len(gpu) + 1,
                                             size |-> VertexBytes]]
  /\ last' = [op |-> "render_program_prepare_vertex_buffer", this |-> "",
              other |-> "", calls |-> <<>>, ok |-> TRUE, pre |-> "none"]
  /\ UNCHANGED <<pbr, particles, sim, blinn, boids, wgpu_context, settings, dynamic_buffers, uniforms, encoder,
                 inited, oob, aborted, request, extent>>

\* render_program_setup_render_uniforms: two scalar slots initialised from
\* float value = 1
render_program_setup_render_uniforms ==
  /\ ~aborted
  /\ {"u_render_intensity", "u_render_dye"} \cap inited = {}
  /\ inited' = inited \cup {"u_render_intensity", "u_render_dye"}
  /\ LET bytes == UniformBufferBytes(1)
         slot(h) == [type |-> 0, size |-> 1, always_update |-> AlwaysUpdate(1),
                     needs_update |-> FALSE,
                     buffer |-> [buffer |-> h, size |-> bytes]]
         buf == NewBufferWithData(bytes, UniformUsage, Fill(bytes, 1))
     IN  /\ uniforms' = [uniforms EXCEPT
                           !["u_render_intensity"] = slot(Len(gpu) + 1),
                           !["u_render_dye"] = slot(Len(gpu) + 2)]
         /\ gpu' = gpu \o <<buf, buf>>
  /\ last' = [op |-> "render_program_setup_render_uniforms", this |-> "",
              other |-> "", calls |-> <<>>, ok |-> TRUE, pre |-> "none"]
  /\ UNCHANGED <<pbr, particles, sim, blinn, boids, render_program, wgpu_context, settings, dynamic_buffers, encoder,
                 oob, aborted, request, extent>>

\* render_program_setup_bind_group: bindings 0..5 are the three channels of
\* rgb_buffer, uGrid, multiplier and isRenderingDye.
render_program_setup_bind_group ==
  /\ ~aborted
  /\ render_program.render_bind_group = <<>>
  /\ render_program' = [render_program EXCEPT !.render_bind_group =
       << dynamic_buffers["rgb_buffer"].buffers[0].buffer,
          dynamic_buffers["rgb_buffer"].buffers[1].buffer,
          dynamic_buffers["rgb_buffer"].buffers[2].buffer,
          uniforms["grid"].buffer.buffer,
          uniforms["u_render_intensity"].buffer.buffer,
          uniforms["u_render_dye"].buffer.buffer >>]
  /\ last' = [op |-> "render_program_setup_bind_group", this |-> "",
              other |-> "", calls |-> <<>>, ok |-> TRUE, pre |-> "none"]
  /\ UNCHANGED <<pbr, particles, sim, blinn, boids, wgpu_context, settings, dynamic_buffers, uniforms, gpu, encoder,
                 inited, oob, aborted, request, extent>>

\* render_program_dispatch(wgpu_context, command_encoder): one render pass
\* drawing 6 vertices is recorded on the encoder.
render_program_dispatch ==
  /\ ~aborted
  /\ Len(encoder) < MaxCmds
  /\ LET pass == [api |-> "RenderPass",
                  bind_group |-> render_program.render_bind_group,
                  vertex_buffer |-> render_program.vertex_buffer.buffer,
                  vertex_count |-> 6]
     IN  /\ encoder' = Append(encoder, pass)
         /\ last' = [op |-> "render_program_dispatch", this |-> "", other |-> "",
                     calls |-> <<pass>>, ok |-> TRUE,
                     pre |-> [gpu |-> gpu, dynamic_buffers |-> dynamic_buffers,
                              uniforms |-> uniforms]]
  /\ render_program' = [render_program EXCEPT !.view = "frame_buffer"]
  /\ UNCHANGED <<pbr, particles, sim, blinn, boids, wgpu_context, settings, dynamic_buffers, uniforms, gpu, inited,
                 oob, aborted, request, extent>>

----------------------------------------------------------------------------
(* Boids example (src/unnamed/part_000) *)

\* The statics before example_initialize; the contents of a particle buffer
\* are the number of simulation steps applied to the initial particle data.
NoBoids == [prepared |-> FALSE, particle_buffers |-> <<>>,
            particle_bind_groups |-> <<>>, frame |-> [index |-> 0], ret |-> 0]

\* Bind group i: binding 1 (source) is particle_buffers[i], binding 2
\* (destination) is particle_buffers[(i + 1) % 2].
BindGroupDst_same(i) == i
BindGroupDst(i) == (i + 1) % 2

\* prepare_uniform_buffers: two particle buffers with the same initial data
\* and the two bind groups.
prepare_uniform_buffers(b) ==
  [b EXCEPT !.particle_buffers = [i \in 0..1 |-> 0],
            !.particle_bind_groups =
               [i \in 0..1 |-> [src |-> i, dst |-> BindGroupDst(i)]]]

\* example_initialize(context); context is "NULL" or a context.
example_initialize(context) ==
  /\ ~aborted
  /\ ~boids.prepared
  /\ boids' = IF context # "NULL"
              THEN [prepare_uniform_buffers(boids) EXCEPT !.prepared = TRUE,
                                                          !.ret = 0]
              ELSE [boids EXCEPT !.ret = 1]
  /\ last' = [op |-> "example_initialize", this |-> context, other |-> "",
              calls |-> <<>>, ok |-> context # "NULL", pre |-> "none"]
  /\ UNCHANGED <<pbr, particles, sim, blinn, render_program, wgpu_context, settings, dynamic_buffers,
                 uniforms, gpu, encoder, inited, oob, aborted, request, extent>>

\* The bind group of the compute pass and the vertex buffer of the render
\* pass of the frame with the given frame.index.
ComputeBindGroup(index) == index % 2
RenderSource_read(index) == index % 2
RenderSource(index) == (index + 1) % 2

\* build_command_buffer: one command encoder, the compute pass, then the
\* render pass.
build_command_buffer(b) ==
  << [pass |-> "compute", encoder |-> 1,
      bind_group |-> ComputeBindGroup(b.frame.index),
      src |-> b.particle_bind_groups[ComputeBindGroup(b.frame.index)].src,
      dst |-> b.particle_bind_groups[ComputeBindGroup(b.frame.index)].dst],
     [pass |-> "render", encoder |-> 1,
      vertex_buffer |-> RenderSource(b.frame.index)] >>

\* The submitted command buffer executes: the compute pass advances the
\* particles of its source buffer by one step into its destination buffer.
ExecBoids(buffers, cmds) ==
  [buffers EXCEPT ![cmds[1].dst] = buffers[cmds[1].src] + 1]

\* The run loop moves on to the next frame.
NextFrameIndex(index) == index + 1

\* example_render(context): nothing is drawn before example_initialize
\* succeeded; otherwise example_draw builds and submits the frame's command
\* buffer.
example_render ==
  /\ ~aborted
  /\ boids.frame.index < MaxFrames
  /\ IF ~boids.prepared
     THEN /\ boids' = [boids EXCEPT !.ret = 1]
          /\ last' = [op |-> "example_render", this |-> "", other |-> "",
                      calls |-> <<>>, ok |-> FALSE, pre |-> "none"]
     ELSE LET cmds == build_command_buffer(boids)
          IN  /\ boids' = [boids EXCEPT
                             !.particle_buffers = ExecBoids(@, cmds),
                             !.frame.index = NextFrameIndex(@),
                             !.ret = 0]
              /\ last' = [op |-> "example_render", this |-> "", other |-> "",
                          calls |-> cmds, ok |-> TRUE,
                          pre |-> [index |-> boids.frame.index,
                                   particle_buffers |-> boids.particle_buffers,
                                   calls |-> last.calls]]
  /\ UNCHANGED <<pbr, particles, sim, blinn, render_program, wgpu_context, settings, dynamic_buffers,
                 uniforms, gpu, encoder, inited, oob, aborted, request, extent>>

----------------------------------------------------------------------------
(* Blinn-Phong example (src/src/examples/blinn_phong.c): buffer creation *)

\* bufer_type_enum and array_data_type_enum
BufferType_Uniform == 0
BufferType_Vertex == 1
BufferType_Index == 2
BufferType_Storage == 3
BufferType_Vertex_Storage == 4
BufferType_Index_Storage == 5
BufferType_Indirect == 6
BufferType_Indirect_Storage == 7
BufferType_Read == 8
BufferType_Write == 9
BufferTypes == BufferType_Uniform..BufferType_Write

DataType_Float32Array == 0
DataType_Float64Array == 1
DataType_Uint16Array == 2
DataType_Uint32Array == 3
DataTypes == DataType_Float32Array..DataType_Uint32Array

NoBlinn == [buffer_type |-> BufferType_Uniform, array_data_type |-> DataType_Float32Array,
            data |-> <<>>, buffer |-> NullHandle]

\* get_buffer_usage_flags_from_buffer_type(buffer_type)
get_buffer_usage_flags_from_buffer_type(buffer_type) ==
  LET common_flags == {"CopyDst", "CopySrc"}
  IN  IF buffer_type = BufferType_Vertex THEN {"Vertex"} \cup common_flags
      ELSE IF buffer_type = BufferType_Index THEN {"Index"} \cup common_flags
      ELSE IF buffer_type = BufferType_Storage THEN {"Storage"} \cup common_flags
      ELSE IF buffer_type = BufferType_Vertex_Storage
        THEN {"Vertex", "Storage"} \cup common_flags
      ELSE IF buffer_type = BufferType_Index_Storage
        THEN {"Index", "Storage"} \cup common_flags
      ELSE IF buffer_type = BufferType_Indirect THEN {"Indirect"} \cup common_flags
      ELSE IF buffer_type = BufferType_Indirect_Storage
        THEN {"Indirect", "Storage"} \cup common_flags
      ELSE IF buffer_type = BufferType_Read THEN {"MapRead", "CopyDst"}
      ELSE IF buffer_type = BufferType_Write THEN {"MapWrite"} \cup common_flags
      ELSE {"Uniform"} \cup common_flags

\* The usage create_buffer_with_data creates the buffer with.
BufferWithDataUsage(array_data_type, buffer_type) ==
  IF /\ buffer_type = BufferType_Vertex
     /\ (\/ array_data_type = DataType_Uint16Array
         \/ array_data_type = DataType_Uint32Array)
  THEN {"Index", "CopyDst", "CopySrc"}
  ELSE get_buffer_usage_flags_from_buffer_type(buffer_type)

\* create_buffer_with_data(device, data, data_byte_length, array_data_type,
\* buffer_type) on the arguments held in blinn: the buffer is created mapped,
\* data_byte_length bytes are copied into it, and it is unmapped.
create_buffer_with_data ==
  /\ ~aborted
  /\ blinn.buffer = NullHandle
  /\ gpu' = Append(gpu, NewBufferWithData(
                          Len(blinn.data),
                          BufferWithDataUsage(blinn.array_data_type, blinn.buffer_type),
                          blinn.data))
  /\ blinn' = [blinn EXCEPT !.buffer = Len(gpu) + 1]
  /\ last' = [op |-> "create_buffer_with_data", this |-> "", other |-> "",
              calls |-> <<[api |-> "CreateBuffer", buffer |-> Len(gpu) + 1,
                           size |-> Len(blinn.data)]>>,
              ok |-> TRUE, pre |-> "none"]
  /\ UNCHANGED <<pbr, particles, sim, boids, render_program, wgpu_context, settings, dynamic_buffers,
                 uniforms, encoder, inited, oob, aborted, request, extent>>

----------------------------------------------------------------------------
(* Simulation tick *)

NoSim == [ticks |-> 0, pc |-> 0, enqueued |-> <<>>]

\* The compute passes of one tick, in the order they are dispatched.
TickPasses_projection_last ==
  <<"advect_velocity", "external_forces", "vorticity_confinement",
    "diffuse_velocity", "advect_dye", "diffuse_dye", "divergence">>
  \o [i \in 1..pressure_iterations |-> "solve_pressure"]
  \o <<"subtract_gradient", "write_rgb">>
TickPasses ==
  <<"advect_velocity", "external_forces", "vorticity_confinement",
    "diffuse_velocity", "divergence">>
  \o [i \in 1..pressure_iterations |-> "solve_pressure"]
  \o <<"subtract_gradient", "advect_dye", "diffuse_dye", "write_rgb">>

\* The tick in progress dispatches its next pass; the host runs a tick to
\* its end before anything else.
DispatchPass ==
  /\ ~aborted
  /\ sim.ticks < MaxTicks
  /\ sim.pc < Len(TickPasses)
  /\ sim' = [sim EXCEPT !.pc = @ + 1,
                        !.enqueued = Append(@, TickPasses[sim.pc + 1])]
  /\ last' = [op |-> "dispatch_pass", this |-> TickPasses[sim.pc + 1],
              other |-> "", calls |-> <<>>, ok |-> TRUE, pre |-> "none"]
  /\ UNCHANGED <<pbr, particles, blinn, boids, render_program, wgpu_context, settings,
                 dynamic_buffers, uniforms, gpu, encoder, inited, oob, aborted,
                 request, extent>>

\* The tick returns to its caller with all its passes enqueued.
TickReturn ==
  /\ ~aborted
  /\ sim.pc = Len(TickPasses)
  /\ sim' = [ticks |-> sim.ticks + 1, pc |-> 0, enqueued |-> <<>>]
  /\ last' = [op |-> "tick", this |-> "", other |-> "", calls |-> sim.enqueued,
              ok |-> TRUE, pre |-> "none"]
  /\ UNCHANGED <<pbr, particles, blinn, boids, render_program, wgpu_context, settings,
                 dynamic_buffers, uniforms, gpu, encoder, inited, oob, aborted,
                 request, extent>>

----------------------------------------------------------------------------
(* Boids example: initial particle data *)

\* float initial_particle_data[NUM_PARTICLES * 4], zeroed by memset; i is the
\* loop counter, assigned the element indices the loop has stored to, and
\* outside the stores that fell outside the array.
NoParticles == [i |-> 0, assigned |-> {}, outside |-> {}, done |-> FALSE]

ParticleElements == 0..(NUM_PARTICLES * 4 - 1)

\* const size_t chunk = i * 4
Chunk(i) == i * 4

\* i += 4
LoopStep(i) == i + 4

\* One iteration of the loop of prepare_uniform_buffers: posx, posy, velx,
\* vely are stored at chunk + 0 .. chunk + 3.
InitParticleChunk ==
  /\ ~aborted
  /\ ~particles.done
  /\ particles.i < NUM_PARTICLES
  /\ LET stores == {Chunk(particles.i) + k : k \in 0..3}
     IN  particles' = [particles EXCEPT
                         !.i = LoopStep(@),
                         !.assigned = @ \cup (stores \cap ParticleElements),
                         !.outside = @ \cup (stores \ ParticleElements)]
  /\ last' = [op |-> "init_particle_chunk", this |-> "", other |-> "",
              calls |-> <<>>, ok |-> TRUE, pre |-> "none"]
  /\ UNCHANGED <<pbr, sim, blinn, boids, render_program, wgpu_context, settings,
                 dynamic_buffers, uniforms, gpu, encoder, inited, oob, aborted,
                 request, extent>>

\* The loop condition i < NUM_PARTICLES fails: the data is complete.
InitParticlesDone ==
  /\ ~aborted
  /\ ~particles.done
  /\ particles.i >= NUM_PARTICLES
  /\ particles' = [particles EXCEPT !.done = TRUE]
  /\ last' = [op |-> "init_particles_done", this |-> "", other |-> "",
              calls |-> <<>>, ok |-> TRUE, pre |-> "none"]
  /\ UNCHANGED <<pbr, sim, blinn, boids, render_program, wgpu_context, settings,
                 dynamic_buffers, uniforms, gpu, encoder, inited, oob, aborted,
                 request, extent>>

----------------------------------------------------------------------------
(* PBR example with image based lighting (src/src/core/math.c) *)

\* materials[12]: the colour of each default material, in millionths.
materials ==
  << [name |-> "Gold",     color |-> <<1000000, 765557, 336057>>],
     [name |-> "Copper",   color |-> <<955008, 637427, 538163>>],
     [name |-> "Chromium", color |-> <<549585, 556114, 554256>>],
     [name |-> "Nickel",   color |-> <<659777, 608679, 525649>>],
     [name |-> "Titanium", color |-> <<541931, 496791, 449419>>],
     [name |-> "Cobalt",   color |-> <<662124, 654864, 633732>>],
     [name |-> "Platinum", color |-> <<672411, 637331, 585456>>],
     [name |-> "White",    color |-> <<1000000, 1000000, 1000000>>],
     [name |-> "Dark",     color |-> <<100000, 100000, 100000>>],
     [name |-> "Black",    color |-> <<0, 0, 0>>],
     [name |-> "Red",      color |-> <<1000000, 0, 0>>],
     [name |-> "Blue",     color |-> <<0, 0, 1000000>>] >>

\* materials[index].params.color for a C index 0 .. 11
MaterialColor(index) == materials[index + 1].color

\* models.objects[4]
objects == <<"Sphere", "Teapot", "Torusknot", "Venus">>

\* The item counts handed to the two combo boxes.
MaterialItems == 11
ObjectItems == 4

\* sizeof(struct matrial_params_dynamic_t): three floats, a vec3, padding.
SizeofMaterialParamsDynamic == 4 + 4 + 4 + 12 + 232

\* sizeof(struct object_params_dynamic_t): a vec3 and padding.
SizeofObjectParamsDynamic == 12 + 244

\* uniform_buffers.material_params.model_size = sizeof(vec3) + sizeof(vec3)
MaterialModelSize == 12 + 12

\* uniform_buffers.object_params.model_size = sizeof(vec4)
ObjectModelSize == 16

\* calc_constant_buffer_byte_size: the byte size rounded up to a multiple of
\* 256.
calc_constant_buffer_byte_size(byte_size) == ((byte_size + 255) \div 256) * 256

\* Exposure and gamma in tenths; the defaults are 4.5 and 2.2.
DefaultExposure == 45
DefaultGamma == 22

\* An unallocated uniform buffer.
NoUniformBuffer == [allocated |-> FALSE, size |-> 0, data |-> <<>>]

\* The steps of a successful example_initialize, in order.
SetupSteps ==
  << "setup_camera", "load_assets", "generate_brdf_lut",
     "generate_irradiance_cube", "generate_prefiltered_env_cube",
     "prepare_uniform_buffers", "setup_bind_group_layouts",
     "setup_pipeline_layouts", "prepare_pipelines", "setup_bind_groups",
     "setup_render_pass" >>

\* The statics before example_initialize.  pc is "idle" between handlers and
\* "overlay" between the recording of a frame's render pass and its overlay
\* update.
NoPbr ==
  [prepared |-> FALSE, setup |-> <<>>, ret |-> 0, pc |-> "idle",
   current_material_index |-> 9,
   object_index |-> 0,
   exposure |-> DefaultExposure,
   gamma |-> DefaultGamma,
   display_skybox |-> TRUE,
   uniform_buffers |-> [object |-> NoUniformBuffer,
                        ubo_params |-> NoUniformBuffer,
                        material_params |-> NoUniformBuffer,
                        object_params |-> NoUniformBuffer]]

\* The rotation of ubo_matrices.model about the y axis, in degrees.
ModelRotation(object_index) == -90 + (IF object_index = 1 THEN 45 ELSE 0)

\* update_uniform_buffers: the model matrix of the selected object is
\* written to the object uniform buffer.
update_uniform_buffers(p) ==
  [p EXCEPT !.uniform_buffers.object.data =
              [rotation |-> ModelRotation(p.object_index)]]

\* update_dynamic_uniform_buffer: every object slot gets its position and
\* the colour of the current material; both dynamic buffers are written.
update_dynamic_uniform_buffer(p) ==
  [p EXCEPT
     !.uniform_buffers.object_params.data =
        [x \in 0..(SINGLE_ROW_OBJECT_COUNT - 1) |-> [position |-> x]],
     !.uniform_buffers.material_params.data =
        [x \in 0..(SINGLE_ROW_OBJECT_COUNT - 1) |->
           [color |-> MaterialColor(p.current_material_index)]]]

\* update_params: the lights, exposure and gamma are written.
update_params(p) ==
  [p EXCEPT !.uniform_buffers.ubo_params.data =
              [exposure |-> p.exposure, gamma |-> p.gamma]]

\* prepare_uniform_buffers of the PBR example: the buffers are created and
\* the three updates fill them.
pbr_prepare_uniform_buffers(p) ==
  LET created ==
        [p EXCEPT
           !.uniform_buffers.object = [allocated |-> TRUE,
                                       size |-> "sizeof(ubo_matrices)",
                                       data |-> <<>>],
           !.uniform_buffers.ubo_params = [allocated |-> TRUE,
                                           size |-> "sizeof(ubo_params)",
                                           data |-> <<>>],
           !.uniform_buffers.material_params =
              [allocated |-> TRUE,
               size |-> calc_constant_buffer_byte_size(
                          SINGLE_ROW_OBJECT_COUNT * SizeofMaterialParamsDynamic),
               data |-> <<>>],
           !.uniform_buffers.object_params =
              [allocated |-> TRUE,
               size |-> calc_constant_buffer_byte_size(
                          SINGLE_ROW_OBJECT_COUNT * SizeofObjectParamsDynamic),
               data |-> <<>>]]
  IN  update_params(update_dynamic_uniform_buffer(update_uniform_buffers(created)))

\* example_initialize(context) of the PBR example; prepared is set after the
\* last setup step.
PreparedAfter_null(context) == TRUE
PreparedAfter(context) == context # "NULL"

pbr_example_initialize(context) ==
  /\ ~aborted
  /\ pbr.pc = "idle"
  /\ ~pbr.prepared
  /\ pbr' = IF context # "NULL"
            THEN [pbr_prepare_uniform_buffers(pbr) EXCEPT
                    !.setup = SetupSteps,
                    !.prepared = PreparedAfter(context),
                    !.ret = 0]
            ELSE [pbr EXCEPT !.prepared = PreparedAfter(context), !.ret = 1]
  /\ last' = [op |-> "pbr_example_initialize", this |-> context, other |-> "",
              calls |-> <<>>, ok |-> context # "NULL", pre |-> "none"]
  /\ UNCHANGED <<particles, sim, blinn, boids, render_program, wgpu_context,
                 settings, dynamic_buffers, uniforms, gpu, encoder, inited,
                 oob, aborted, request, extent>>

\* uint32_t dynamic_offset = i * (uint32_t)ALIGNMENT
DynamicOffset_packed(i) == i * MaterialModelSize
DynamicOffset(i) == i * ALIGNMENT

\* Whether the render pass draws the skybox.
DrawsSkybox(p) == p.display_skybox

\* build_command_buffer of the PBR example: the draws of the render pass.
pbr_build_command_buffer(p) ==
  (IF DrawsSkybox(p) THEN <<[draw |-> "skybox"]>> ELSE <<>>)
  \o [k \in 1..SINGLE_ROW_OBJECT_COUNT |->
        [draw |-> "object", object |-> p.object_index,
         dynamic_offsets |-> <<DynamicOffset(k - 1), DynamicOffset(k - 1)>>]]

\* example_render of the PBR example up to the end of the render pass:
\* nothing is recorded before example_initialize succeeded.
pbr_example_render ==
  /\ ~aborted
  /\ pbr.pc = "idle"
  /\ IF ~pbr.prepared
     THEN /\ pbr' = [pbr EXCEPT !.ret = 1]
          /\ last' = [op |-> "pbr_example_render", this |-> "", other |-> "",
                      calls |-> <<>>, ok |-> FALSE, pre |-> "none"]
     ELSE /\ pbr' = [pbr EXCEPT !.pc = "overlay"]
          /\ last' = [op |-> "pbr_example_render", this |-> "", other |-> "",
                      calls |-> pbr_build_command_buffer(pbr), ok |-> TRUE,
                      pre |-> [display_skybox |-> pbr.display_skybox]]
  /\ UNCHANGED <<particles, sim, blinn, boids, render_program, wgpu_context,
                 settings, dynamic_buffers, uniforms, gpu, encoder, inited,
                 oob, aborted, request, extent>>

\* What the user does to the overlay in one frame: whether the "Settings"
\* header is open, the item picked in each combo box, the step applied to
\* each float input (-1, 0 or 1 tenths) and whether the checkbox is clicked.
NoInteraction(p) ==
  [header |-> FALSE, material |-> p.current_material_index,
   object |-> p.object_index, exposure |-> 0, gamma |-> 0, skybox |-> FALSE]

ParamSteps(value, default) ==
  {d \in {-1, 0, 1} : value + d \in (default - MaxParamSteps)..(default + MaxParamSteps)}

UiInputs(p) ==
  {NoInteraction(p)} \cup
  [header : {TRUE},
   material : 0..(MaterialItems - 1),
   object : 0..(ObjectItems - 1),
   exposure : ParamSteps(p.exposure, DefaultExposure),
   gamma : ParamSteps(p.gamma, DefaultGamma),
   skybox : BOOLEAN]

\* imgui_overlay_combo_box stores the picked item and reports a change.
ComboChanged(current, picked) == picked # current

\* example_on_update_ui_overlay with the user's input ui.
ObjectChangeUpdate(p) == update_dynamic_uniform_buffer(p)

example_on_update_ui_overlay(p, ui) ==
  IF ~ui.header THEN p
  ELSE
    LET p1 == [p EXCEPT !.current_material_index = ui.material]
        p2 == IF ComboChanged(p.current_material_index, ui.material)
              THEN update_dynamic_uniform_buffer(p1) ELSE p1
        p3 == [p2 EXCEPT !.object_index = ui.object]
        p4 == IF ComboChanged(p.object_index, ui.object)
              THEN ObjectChangeUpdate(p3) ELSE p3
        p5 == [p4 EXCEPT !.exposure = @ + ui.exposure]
        p6 == IF ui.exposure # 0 THEN update_params(p5) ELSE p5
        p7 == [p6 EXCEPT !.gamma = @ + ui.gamma]
        p8 == IF ui.gamma # 0 THEN update_params(p7) ELSE p7
    IN  [p8 EXCEPT !.display_skybox = IF ui.skybox THEN ~@ ELSE @]

\* The rest of example_render: draw_ui runs the overlay update, then the
\* command buffer is submitted.
draw_ui(ui) ==
  /\ ~aborted
  /\ pbr.pc = "overlay"
  /\ pbr' = [example_on_update_ui_overlay(pbr, ui) EXCEPT !.pc = "idle",
                                                          !.ret = 0]
  /\ last' = [op |-> "draw_ui", this |-> "", other |-> "",
              calls |-> <<>>, ok |-> TRUE,
              pre |-> [header |-> ui.header,
                       offered |-> [material |-> 0..(MaterialItems - 1),
                                    object |-> 0..(ObjectItems - 1)]]]
  /\ UNCHANGED <<particles, sim, blinn, boids, render_program, wgpu_context,
                 settings, dynamic_buffers, uniforms, gpu, encoder, inited,
                 oob, aborted, request, extent>>

\* example_on_view_changed: the camera moved.
example_on_view_changed ==
  /\ ~aborted
  /\ pbr.pc = "idle"
  /\ pbr.prepared
  /\ pbr' = update_uniform_buffers(pbr)
  /\ last' = [op |-> "example_on_view_changed", this |-> "", other |-> "",
              calls |-> <<>>, ok |-> TRUE, pre |-> "none"]
  /\ UNCHANGED <<particles, sim, blinn, boids, render_program, wgpu_context,
                 settings, dynamic_buffers, uniforms, gpu, encoder, inited,
                 oob, aborted, request, extent>>

----------------------------------------------------------------------------
(* Dimension validation *)

RECURSIVE Gcd(_, _)
Gcd(a, b) == IF b = 0 THEN a ELSE Gcd(b, a % b)

IsPowerOfTwo(n) == \E k \in 0..30 : n = 2^k

\* down_ratio as the code selects it: 1.0f, sqrt(num / den) or num / den.
\* The canvas test comes last and overwrites the buffer-size ratio.
DownRatio_canvas_ignored(w, h, max_buffer_size, max_canvas_size) ==
  IF w > max_canvas_size \/ h > max_canvas_size
    THEN [kind |-> "one", num |-> 1, den |-> 1]
  ELSE IF w * h * 4 >= max_buffer_size
    THEN [kind |-> "sqrt", num |-> max_buffer_size, den |-> w * h * 4]
  ELSE [kind |-> "one", num |-> 1, den |-> 1]
DownRatio(w, h, max_buffer_size, max_canvas_size) ==
  IF w > max_canvas_size
    THEN [kind |-> "quot", num |-> max_canvas_size, den |-> w]
  ELSE IF h > max_canvas_size
    THEN [kind |-> "quot", num |-> max_canvas_size, den |-> h]
  ELSE IF w * h * 4 >= max_buffer_size
    THEN [kind |-> "sqrt", num |-> max_buffer_size, den |-> w * h * 4]
  ELSE [kind |-> "one", num |-> 1, den |-> 1]

\* floor(x * sqrt(num / den)) in exact arithmetic, for num <= den
ExactFloorSqrt(x, num, den) ==
  CHOOSE k \in 0..x : k * k * den <= x * x * num /\ (k + 1) * (k + 1) * den > x * x * num

\* floor(x * down_ratio) as single-precision arithmetic can deliver it.
\* The product is computed from a rounded ratio: when the exact product is a
\* non-integer the floor is the exact one; when it is an integer e the ratio
\* is either a dyadic fraction (then every step is exact and the result is e)
\* or was rounded, and the rounded product is e or falls just below it.
FloorMul(x, ratio) ==
  IF ratio.kind = "one" THEN {x}
  ELSE IF ratio.kind = "quot" THEN
    LET e == (x * ratio.num) \div ratio.den
    IN  IF (x * ratio.num) % ratio.den = 0 /\ e > 0
           /\ ~IsPowerOfTwo(ratio.den \div Gcd(ratio.num, ratio.den))
        THEN {e - 1, e} ELSE {e}
  ELSE
    LET e == ExactFloorSqrt(x, ratio.num, ratio.den)
    IN  IF e * e * ratio.den = x * x * ratio.num /\ e > 0
           /\ ~IsPowerOfTwo(x \div Gcd(e, x))
        THEN {e - 1, e} ELSE {e}

\* get_valid_dimensions(w, h, max_buffer_size, max_canvas_size): the extents
\* the call can return.
get_valid_dimensions(w, h, max_buffer_size, max_canvas_size) ==
  LET ratio == DownRatio(w, h, max_buffer_size, max_canvas_size)
  IN  {[width |-> a, height |-> b, valid |-> TRUE] :
         a \in FloorMul(w, ratio), b \in FloorMul(h, ratio)}

GetValidDimensions ==
  /\ ~extent.valid
  /\ extent' \in get_valid_dimensions(request.w, request.h,
                                      request.max_buffer_size,
                                      request.max_canvas_size)
  /\ UNCHANGED <<pbr, particles, sim, blinn, boids, render_program, wgpu_context, settings, dynamic_buffers, uniforms, gpu, encoder, inited, oob,
                 aborted, last, request>>

----------------------------------------------------------------------------
(* Preferred dimensions and init_sizes *)

\* The device limits of a desktop adapter: 128 MB storage bindings and
\* 8192-texel textures.
AdapterLimits == [maxStorageBufferBindingSize |-> 134217728,
                  maxTextureDimension2D |-> 8192]

\* Converting a float that is infinite, NaN or out of range to uint32_t is
\* undefined: the assignment can leave any value.  These values stand for
\* "any": zero, small, at and just above the canvas limit, and large.
UndefinedConversion == {0, 1, 8192, 8193, 65536}

\* aspect_ratio = (float)width / (float)height is represented exactly when
\* the reduced denominator is a power of two.
AspectIsExact(sw, sh) == IsPowerOfTwo(sh \div Gcd(sw, sh))

\* floor(size * aspect_ratio) for height < width.  A zero height makes the
\* ratio infinite.  When the exact product is an integer e and the ratio was
\* rounded, the rounded product is e or falls just below it.
FloorTimesAspect(size, sw, sh) ==
  IF sh = 0 THEN UndefinedConversion
  ELSE LET e == (size * sw) \div sh
       IN  IF (size * sw) % sh = 0 /\ e > 0 /\ ~AspectIsExact(sw, sh)
           THEN {e - 1, e} ELSE {e}

\* floor(size / aspect_ratio) for height >= width.  A zero width makes the
\* quotient infinite (NaN when the height is zero too).
FloorOverAspect(size, sw, sh) ==
  IF sw = 0 THEN UndefinedConversion
  ELSE LET e == (size * sh) \div sw
       IN  IF (size * sh) % sw = 0 /\ e > 0 /\ ~AspectIsExact(sw, sh)
           THEN {e - 1, e} ELSE {e}

\* The w and h get_preferred_dimensions passes on to get_valid_dimensions.
FitToScreen(size, surface) ==
  IF surface.height < surface.width
  THEN {[w |-> a, h |-> size] :
          a \in FloorTimesAspect(size, surface.width, surface.height)}
  ELSE {[w |-> size, h |-> b] :
          b \in FloorOverAspect(size, surface.width, surface.height)}

\* get_preferred_dimensions(size, wgpu_context, max_buffer_size,
\* max_canvas_size): the extents the call can return.
get_preferred_dimensions(size, surface, max_buffer_size, max_canvas_size) ==
  UNION {get_valid_dimensions(p.w, p.h, max_buffer_size, max_canvas_size) :
           p \in FitToScreen(size, surface)}

\* The limits init_sizes works with: zero when wgpuAdapterGetLimits fails.
max_buffer_size ==
  IF wgpu_context.limits_ok
  THEN wgpu_context.limits.maxStorageBufferBindingSize ELSE 0
max_canvas_size ==
  IF wgpu_context.limits_ok
  THEN wgpu_context.limits.maxTextureDimension2D ELSE 0

init_sizes ==
  /\ ~aborted
  /\ last.op = "none"
  /\ \E grid \in get_preferred_dimensions(grid_size, wgpu_context.surface,
                                          max_buffer_size, max_canvas_size),
        dye \in get_preferred_dimensions(dye_size, wgpu_context.surface,
                                         max_buffer_size, max_canvas_size) :
       settings' = [grid_w |-> grid.width, grid_h |-> grid.height,
                    dye_w |-> dye.width, dye_h |-> dye.height,
                    rdx |-> grid_size * 4, dye_rdx |-> dye_size * 4,
                    dx |-> [num |-> 1, den |-> grid_size * 4]]
  /\ last' = [op |-> "init_sizes", this |-> "", other |-> "", calls |-> <<>>,
              ok |-> TRUE, pre |-> "none"]
  /\ UNCHANGED <<pbr, particles, sim, blinn, boids, render_program, wgpu_context, dynamic_buffers, uniforms, gpu, encoder, inited,
                 oob, aborted, request, extent>>

----------------------------------------------------------------------------
(* Specifications *)

\* settings before init_sizes: the fields the static initialiser leaves zero
NoSettings == [grid_w |-> 0, grid_h |-> 0, dye_w |-> 0, dye_h |-> 0,
               rdx |-> 0, dye_rdx |-> 0, dx |-> [num |-> 0, den |-> 1]]
NoContext == [surface |-> [width |-> 0, height |-> 0], limits_ok |-> FALSE,
              limits |-> [maxStorageBufferBindingSize |-> 0,
                          maxTextureDimension2D |-> 0]]
NoRequest == [w |-> 0, h |-> 0, max_buffer_size |-> 0, max_canvas_size |-> 0]
NoExtent == [width |-> 0, height |-> 0, valid |-> FALSE]

Init ==
  /\ settings = NoSettings
  /\ dynamic_buffers = [f \in Fields |-> dynamic_buffer_init_defaults]
  /\ uniforms = [u \in UniformNames |-> uniform_init_defaults]
  /\ gpu = <<>>
  /\ encoder = <<>>
  /\ inited = {}
  /\ oob = {}
  /\ aborted = FALSE
  /\ last = NoCall
  /\ request = NoRequest
  /\ extent = NoExtent
  /\ wgpu_context = NoContext
  /\ render_program = NoRenderProgram
  /\ boids = NoBoids
  /\ sim = NoSim
  /\ particles = NoParticles
  /\ pbr = NoPbr
  /\ blinn = NoBlinn

NextDB ==
  \/ \E this \in Harness, dims \in 0..MaxDimsArg, w \in Widths, h \in Heights :
       dynamic_buffer_init(this, dims, w, h)
  \/ \E this \in Harness, buffer \in Harness :
       /\ this # buffer
       /\ Live(gpu, dynamic_buffers[this])
       /\ Live(gpu, dynamic_buffers[buffer])
       /\ dynamic_buffer_copy_to(this, buffer)
  \/ \E this \in Harness :
       Live(gpu, dynamic_buffers[this]) /\ dynamic_buffer_clear(this)
  \/ \E this \in Harness :
       Live(gpu, dynamic_buffers[this]) /\ ComputePassWrite(this)
  \/ SubmitFrame
  \/ \E this \in Harness : dynamic_buffer_destroy(this)

SpecDB == Init /\ [][NextDB]_vars

NextUniform ==
  \/ \E this \in UHarness, size \in 0..MaxUSize :
       \E value \in Values(size) : uniform_init(this, size, value)
  \/ \E this \in UHarness :
       \E value \in Values(uniforms[this].size) : uniform_update(this, value)
  \/ \E this \in UHarness : SetNeedsUpdate(this)

SpecUniform == Init /\ [][NextUniform]_vars

\* The registry is set up from the sizes init_sizes left in settings.
InitRegistry ==
  /\ settings \in {[grid_w |-> gw, grid_h |-> gh, dye_w |-> dw, dye_h |-> dh,
                     rdx |-> grid_size * 4, dye_rdx |-> dye_size * 4,
                     dx |-> [num |-> 1, den |-> grid_size * 4]] :
                      gw \in 0..MaxW, gh \in 0..MaxW, dw \in 0..MaxW, dh \in 0..MaxW}
  /\ dynamic_buffers = [f \in Fields |-> dynamic_buffer_init_defaults]
  /\ uniforms = [u \in UniformNames |-> uniform_init_defaults]
  /\ gpu = <<>>
  /\ encoder = <<>>
  /\ inited = {}
  /\ oob = {}
  /\ aborted = FALSE
  /\ last = NoCall
  /\ request = NoRequest
  /\ extent = NoExtent
  /\ wgpu_context = NoContext
  /\ render_program = NoRenderProgram
  /\ boids = NoBoids
  /\ sim = NoSim
  /\ particles = NoParticles
  /\ pbr = NoPbr
  /\ blinn = NoBlinn

NextRegistry ==
  \/ dynamic_buffers_init
  \/ render_program_setup_rgb_buffer

SpecRegistry == InitRegistry /\ [][NextRegistry]_vars

\* The render program is set up after the uniforms and the rgb buffer exist
\* and dispatches once its bind group exists; the dye is written into the
\* rgb buffer by a compute pass.
NextRender ==
  \/ render_program_setup_rgb_buffer
  \/ render_program_setup_render_uniforms
  \/ render_program_prepare_vertex_buffer
  \/ \E value \in Values(GridUniformSize) \ {NullPtr} :
       uniform_init("grid", GridUniformSize, value)
  \/ /\ {"rgb_buffer", "grid", "u_render_dye"} \subseteq inited
     /\ render_program_setup_bind_group
  \/ ComputePassWrite("rgb_buffer")
  \/ render_program.render_bind_group # <<>> /\ render_program_dispatch
  \/ SubmitFrame

\* The render program works on the dye resolution init_sizes left.
InitRender ==
  /\ settings \in {[grid_w |-> 1, grid_h |-> 1, dye_w |-> dw, dye_h |-> 1,
                     rdx |-> grid_size * 4, dye_rdx |-> dye_size * 4,
                     dx |-> [num |-> 1, den |-> grid_size * 4]] : dw \in 0..MaxW}
  /\ dynamic_buffers = [f \in Fields |-> dynamic_buffer_init_defaults]
  /\ uniforms = [u \in UniformNames |-> uniform_init_defaults]
  /\ gpu = <<>>
  /\ encoder = <<>>
  /\ inited = {}
  /\ oob = {}
  /\ aborted = FALSE
  /\ last = NoCall
  /\ request = NoRequest
  /\ extent = NoExtent
  /\ wgpu_context = NoContext
  /\ render_program = NoRenderProgram
  /\ boids = NoBoids
  /\ sim = NoSim
  /\ particles = NoParticles
  /\ pbr = NoPbr
  /\ blinn = NoBlinn

SpecRender == InitRender /\ [][NextRender]_vars

\* get_valid_dimensions is applied to every request within the bounds.
InitDims ==
  /\ settings = NoSettings
  /\ dynamic_buffers = [f \in Fields |-> dynamic_buffer_init_defaults]
  /\ uniforms = [u \in UniformNames |-> uniform_init_defaults]
  /\ gpu = <<>>
  /\ encoder = <<>>
  /\ inited = {}
  /\ oob = {}
  /\ aborted = FALSE
  /\ last = NoCall
  /\ request \in [w : 1..MaxReq, h : 1..MaxReq,
                  max_buffer_size : 0..MaxBufferSize,
                  max_canvas_size : 0..MaxCanvasSize]
  /\ extent = NoExtent
  /\ wgpu_context = NoContext
  /\ render_program = NoRenderProgram
  /\ boids = NoBoids
  /\ sim = NoSim
  /\ particles = NoParticles
  /\ pbr = NoPbr
  /\ blinn = NoBlinn

NextDims == GetValidDimensions

SpecDims == InitDims /\ [][NextDims]_vars

\* init_sizes runs on every window surface within the bounds, with the
\* adapter's limits query succeeding or failing.
InitSizes ==
  /\ settings = NoSettings
  /\ dynamic_buffers = [f \in Fields |-> dynamic_buffer_init_defaults]
  /\ uniforms = [u \in UniformNames |-> uniform_init_defaults]
  /\ gpu = <<>>
  /\ encoder = <<>>
  /\ inited = {}
  /\ oob = {}
  /\ aborted = FALSE
  /\ last = NoCall
  /\ request = NoRequest
  /\ extent = NoExtent
  /\ wgpu_context \in {[surface |-> [width |-> sw, height |-> sh],
                         limits_ok |-> ok, limits |-> AdapterLimits] :
                          sw \in 0..MaxSurface, sh \in 0..MaxSurface, ok \in BOOLEAN}
  /\ render_program = NoRenderProgram
  /\ boids = NoBoids
  /\ sim = NoSim
  /\ particles = NoParticles
  /\ pbr = NoPbr
  /\ blinn = NoBlinn

NextSizes == init_sizes

SpecSizes == InitSizes /\ [][NextSizes]_vars

NextBoids ==
  \/ \E context \in {"NULL", "context"} : example_initialize(context)
  \/ example_render

SpecBoids == Init /\ [][NextBoids]_vars

\* create_buffer_with_data is applied to every buffer type, data type and
\* data length within the bounds.
InitBlinn ==
  /\ settings = NoSettings
  /\ dynamic_buffers = [f \in Fields |-> dynamic_buffer_init_defaults]
  /\ uniforms = [u \in UniformNames |-> uniform_init_defaults]
  /\ gpu = <<>>
  /\ encoder = <<>>
  /\ inited = {}
  /\ oob = {}
  /\ aborted = FALSE
  /\ last = NoCall
  /\ request = NoRequest
  /\ extent = NoExtent
  /\ wgpu_context = NoContext
  /\ render_program = NoRenderProgram
  /\ boids = NoBoids
  /\ sim = NoSim
  /\ particles = NoParticles
  /\ pbr = NoPbr
  /\ blinn \in {[buffer_type |-> bt, array_data_type |-> dt,
                  data |-> Fill(4 * n, 1), buffer |-> NullHandle] :
                   bt \in BufferTypes, dt \in DataTypes, n \in 1..MaxElems}

NextBlinn == create_buffer_with_data

SpecBlinn == InitBlinn /\ [][NextBlinn]_vars

NextTick == DispatchPass \/ TickReturn

SpecTick == Init /\ [][NextTick]_vars

NextParticles == InitParticleChunk \/ InitParticlesDone

SpecParticles == Init /\ [][NextParticles]_vars

NextPbr ==
  \/ \E context \in {"NULL", "context"} : pbr_example_initialize(context)
  \/ pbr_example_render
  \/ \E ui \in UiInputs(pbr) : draw_ui(ui)
  \/ example_on_view_changed

SpecPbr == Init /\ [][NextPbr]_vars

\* The run loops of the boids and the PBR example with a user who leaves the
\* overlay alone.
NextPrepared ==
  \/ NextBoids
  \/ \E context \in {"NULL", "context"} : pbr_example_initialize(context)
  \/ pbr_example_render
  \/ draw_ui(NoInteraction(pbr))

SpecPrepared == Init /\ [][NextPrepared]_vars

Next ==
  \/ NextDB \/ NextUniform \/ NextRegistry \/ NextDims \/ NextSizes
  \/ NextRender \/ NextBoids \/ NextBlinn \/ NextTick \/ NextParticles
  \/ NextPbr

Spec == Init /\ [][Next]_vars

----------------------------------------------------------------------------
(* Properties of the DynamicBuffer *)

LastThis == dynamic_buffers[last.this]
LastOther == dynamic_buffers[last.other]

CopyBetweenInitialised ==
  /\ last.op = "dynamic_buffer_copy_to"
  /\ LastThis.dims \in 1..MAX_DIMENSIONS
  /\ LastOther.dims \in 1..MAX_DIMENSIONS

\* C1: for channel counts d1 (source) and d2 (destination) in {1,2,3},
\* dynamic_buffer_copy_to records exactly max(d1,d2) copies, and copy i reads
\* source channel min(i, d1-1) and writes destination channel min(i, d2-1),
\* both at offset 0.
C1_CopyCountAndChannels ==
  CopyBetweenInitialised =>
    /\ Len(last.calls) = Max(LastThis.dims, LastOther.dims)
    /\ \A i \in 0..(Max(LastThis.dims, LastOther.dims) - 1) :
         /\ last.calls[i + 1].api = "CopyBufferToBuffer"
         /\ last.calls[i + 1].src = LastThis.buffers[Min(i, LastThis.dims - 1)].buffer
         /\ last.calls[i + 1].dst = LastOther.buffers[Min(i, LastOther.dims - 1)].buffer
         /\ ValidHandle(gpu, last.calls[i + 1].src)
         /\ ValidHandle(gpu, last.calls[i + 1].dst)
         /\ last.calls[i + 1].src_offset = 0
         /\ last.calls[i + 1].dst_offset = 0

\* A 1-channel source was copied onto a 3-channel destination: three copies,
\* all reading the only source channel.
C1_Witness ==
  /\ CopyBetweenInitialised
  /\ LastThis.dims = 1
  /\ LastOther.dims = 3
  /\ Len(last.calls) = 3
  /\ last.calls[3].src = LastThis.buffers[0].buffer
  /\ last.calls[3].dst = LastOther.buffers[2].buffer

\* C2: every copy recorded by dynamic_buffer_copy_to transfers the smaller
\* of the two per-channel byte sizes, so no copy reads past the end of its
\* source channel buffer or writes past the end of its destination channel
\* buffer.
C2_CopySizeIsSmaller ==
  CopyBetweenInitialised =>
    \A k \in 1..Len(last.calls) :
      /\ last.calls[k].size = Min(LastThis.buffer_size, LastOther.buffer_size)
      /\ InRange(gpu, last.calls[k].src, last.calls[k].src_offset, last.calls[k].size)
      /\ InRange(gpu, last.calls[k].dst, last.calls[k].dst_offset, last.calls[k].size)

\* C3: after dynamic_buffer_clear on an initialised DynamicBuffer every byte
\* of every one of its dims channel buffers is zero, whatever they held.
C3_ClearZeroesAllChannels ==
  (/\ last.op = "dynamic_buffer_clear"
   /\ last.this \in inited
   /\ LastThis.dims <= MAX_DIMENSIONS) =>
    /\ Len(last.calls) = LastThis.dims
    /\ AllZero(gpu, LastThis)

\* A 3-channel field holding non-zero data was cleared.
C3_Witness ==
  /\ last.op = "dynamic_buffer_clear"
  /\ last.pre = "nonzero"
  /\ LastThis.dims = 3
  /\ AllZero(gpu, LastThis)

\* C8: dynamic_buffer_init with a channel count above 3 is fatal: it creates
\* no channel buffer and stores no handle at an index >= 3 of the 3-slot
\* buffers array (nor anywhere else).
C8_InitRejectsTooManyChannels ==
  /\ oob = {}
  /\ (/\ last.op = "dynamic_buffer_init"
      /\ LastThis.dims > MAX_DIMENSIONS) =>
       /\ aborted
       /\ last.calls = <<>>
       /\ \A i \in 0..(MAX_DIMENSIONS - 1) : LastThis.buffers[i] = NullBuffer

\* init was called with 4 channels and the process was terminated.
C8_Witness ==
  /\ last.op = "dynamic_buffer_init"
  /\ LastThis.dims = 4
  /\ aborted

----------------------------------------------------------------------------
(* Properties of the UniformSlot *)

LastSlot == uniforms[last.this]

UpdateCalled == last.op = "uniform_update"

\* The call issued a GPU buffer write.
Wrote == Len(last.calls) = 1 /\ last.calls[1].api = "QueueWriteBuffer"

\* C4: for a UniformSlot initialised with element count 1 every call to
\* uniform_update performs a GPU buffer write, whatever the dirty flag and
\* whether or not a new value is supplied.
C4_ScalarSlotAlwaysWrites ==
  (UpdateCalled /\ last.this \in inited /\ last.pre.u.size = 1) => Wrote

\* A clean scalar slot was updated with a NULL value, and wrote.
C4_Witness ==
  /\ UpdateCalled
  /\ last.this \in inited
  /\ last.pre.u.size = 1
  /\ ~last.pre.u.needs_update
  /\ last.pre.value.null
  /\ Wrote

\* C5: for a slot with element count > 1 whose dirty flag is false, a call
\* to uniform_update with a NULL value performs no GPU write and leaves the
\* slot's state and the buffer contents unchanged.
C5_CleanVectorSlotNoWrite ==
  (/\ UpdateCalled
   /\ last.pre.u.size > 1
   /\ ~last.pre.u.needs_update
   /\ last.pre.value.null) =>
    /\ last.calls = <<>>
    /\ LastSlot = last.pre.u
    /\ gpu = last.pre.gpu
    /\ ~aborted

\* A clean 2-element slot with an allocated buffer was updated with NULL.
C5_Witness ==
  /\ UpdateCalled
  /\ last.pre.u.size = 2
  /\ ~last.pre.u.needs_update
  /\ last.pre.value.null
  /\ ValidHandle(gpu, LastSlot.buffer.buffer)
  /\ last.calls = <<>>

\* C6: uniform_update issues the write of the new value to the slot's buffer
\* exactly when dirty || alwaysUpdate || newValue != NULL; after every call
\* that wrote and returned the dirty flag is false; a non-NULL value forces
\* a write even when dirty and alwaysUpdate are both false.
C6_WriteExactlyWhenDirtyAlwaysOrValue ==
  UpdateCalled =>
    /\ Wrote <=> (\/ last.pre.u.needs_update
                  \/ last.pre.u.always_update
                  \/ ~last.pre.value.null)
    /\ ~Wrote => last.calls = <<>>
    /\ Wrote => /\ last.calls[1].data = last.pre.value
                /\ last.calls[1].buffer = last.pre.u.buffer.buffer
                /\ last.calls[1].offset = 0
    /\ (Wrote /\ last.ok) => ~LastSlot.needs_update
    /\ (~last.pre.value.null /\ ~last.pre.u.needs_update
        /\ ~last.pre.u.always_update) => Wrote

\* A clean 2-element slot (not always-update) was updated with a non-NULL
\* value and wrote it.
C6_Witness ==
  /\ UpdateCalled
  /\ last.pre.u.size = 2
  /\ ~last.pre.u.needs_update
  /\ ~last.pre.u.always_update
  /\ ~last.pre.value.null
  /\ Wrote
  /\ ~LastSlot.needs_update

\* C9: uniform_init allocates a uniform-usage GPU buffer of elementCount*4
\* bytes for every slot, whether or not an initial value is supplied, and
\* uploads the initial value only when it is non-NULL; so every initialised
\* UniformSlot has a buffer of element count x 4 bytes.  Stated for the
\* slots with at least one element.
C9_InitAlwaysAllocates ==
  /\ \A this \in (inited \cap UniformNames) :
       uniforms[this].size >= 1 =>
         /\ ValidHandle(gpu, uniforms[this].buffer.buffer)
         /\ gpu[uniforms[this].buffer.buffer].size = uniforms[this].size * 4
         /\ gpu[uniforms[this].buffer.buffer].usage = UniformUsage
  /\ (last.op = "uniform_init" /\ LastSlot.size >= 1) =>
       /\ Len(last.calls) = 1
       /\ last.calls[1].size = LastSlot.size * 4
       /\ gpu[LastSlot.buffer.buffer].data =
            (IF last.pre.value.null THEN Zeros(LastSlot.size * 4)
             ELSE last.pre.value.bytes)

----------------------------------------------------------------------------
(* Properties of the field registry and of the dimension validation *)

\* C7: after dynamic_buffers_init and render_program_setup_rgb_buffer every
\* named DynamicBuffer has a channel count between 1 and 3, so the
\* initialisation completes without triggering the channel-count
\* configuration error.
C7_RegistryChannelCounts ==
  /\ ~aborted
  /\ \A f \in (inited \cap Fields) : dynamic_buffers[f].dims \in 1..MAX_DIMENSIONS

RequestBytes == request.w * request.h * 4

\* C10: for every request whose buffer size w*h*4 exceeds max_buffer_size
\* the result, downscaled by sqrt(max_buffer_size / (w*h*4)), satisfies
\* width*height*4 <= max_buffer_size, for every value of max_canvas_size
\* (also when w or h exceeds max_canvas_size).
C10_BufferBudgetRespected ==
  (extent.valid /\ RequestBytes > request.max_buffer_size) =>
    extent.width * extent.height * 4 <= request.max_buffer_size

\* C11: for every request in which w or h exceeds max_canvas_size both
\* returned dimensions are <= max_canvas_size (the result being scaled by
\* max_canvas_size / max(w, h)), also when both exceed it and h > w.
C11_CanvasLimitRespected ==
  (/\ extent.valid
   /\ (request.w > request.max_canvas_size \/ request.h > request.max_canvas_size)) =>
    /\ extent.width <= request.max_canvas_size
    /\ extent.height <= request.max_canvas_size

----------------------------------------------------------------------------
(* Properties of init_sizes *)

SizesDone == last.op = "init_sizes"

\* C12: with grid_size = 512, dye_size = 2048, maxStorageBufferBindingSize =
\* 128 MB and maxTextureDimension2D = 8192, for any window surface width and
\* height init_sizes produces grid_w, grid_h, dye_w, dye_h with
\* w*h*4 <= 128 MB and w, h <= 8192, for the grid and for the dye resolution.
C12_SizesWithinDeviceLimits ==
  (SizesDone /\ wgpu_context.limits_ok) =>
    /\ settings.grid_w * settings.grid_h * 4 <= AdapterLimits.maxStorageBufferBindingSize
    /\ settings.dye_w * settings.dye_h * 4 <= AdapterLimits.maxStorageBufferBindingSize
    /\ settings.grid_w <= AdapterLimits.maxTextureDimension2D
    /\ settings.grid_h <= AdapterLimits.maxTextureDimension2D
    /\ settings.dye_w <= AdapterLimits.maxTextureDimension2D
    /\ settings.dye_h <= AdapterLimits.maxTextureDimension2D

\* A wide surface (aspect 5) asked for a 10240-texel dye width, which was
\* brought down to the canvas limit.
C12_Witness ==
  /\ SizesDone
  /\ wgpu_context.limits_ok
  /\ wgpu_context.surface = [width |-> 5, height |-> 1]
  /\ settings.dye_w = 8192
  /\ settings.grid_w = 2560
  /\ settings.grid_h = 512

----------------------------------------------------------------------------
(* Properties of the command encoder *)

\* The command at position k of cmds is the last one that touches its source
\* and its destination buffer.
Settled(cmds, k) ==
  \A j \in (k + 1)..Len(cmds) :
    cmds[j].dst # cmds[k].dst /\ cmds[j].dst # cmds[k].src

\* C13: dynamic_buffer_copy_to only records copy commands: when it returns
\* no byte of any channel buffer has changed and its commands wait on the
\* encoder; the destination takes the source's contents only once the
\* recorded commands execute.
C13_CopyOnlyRecords ==
  /\ last.op = "dynamic_buffer_copy_to" =>
       /\ gpu = last.pre.gpu
       /\ encoder = last.pre.encoder \o last.calls
  /\ (last.op = "submit" /\ last.ok) =>
       \A k \in 1..Len(last.calls) :
         Settled(last.calls, k) =>
           \A i \in 1..last.calls[k].size :
             gpu[last.calls[k].dst].data[i] = gpu[last.calls[k].src].data[i]

\* A copy between two fields of equal size was recorded while the source
\* held non-zero bytes and the destination zeros: both still do.
C13_Witness ==
  /\ last.op = "dynamic_buffer_copy_to"
  /\ Len(last.calls) >= 1
  /\ \A k \in 1..Len(last.calls) : CopyValid(gpu, last.calls[k])
  /\ gpu[last.calls[1].src].data[1] # 0
  /\ gpu[last.calls[1].dst].data[1] = 0

\* The frame just submitted held exactly the commands of a.copyTo(b), and
\* the last host call before the submission was b.clear().
CopyThenClearSubmitted(a, b) ==
  /\ last.op = "submit"
  /\ a # b
  /\ {a, b} \subseteq inited
  /\ dynamic_buffers[a].dims \in 1..MAX_DIMENSIONS
  /\ dynamic_buffers[b].dims \in 1..MAX_DIMENSIONS
  /\ last.calls = CopyCommands(dynamic_buffers[a], dynamic_buffers[b])
  /\ last.pre.prev = [op |-> "dynamic_buffer_clear", this |-> b]

\* C14 (as stated): clear and copyTo are recorded onto the same encoder and
\* take effect in the order issued: if the host issues A.copyTo(B) and then
\* B.clear() before the frame is submitted, every byte of B is zero after
\* the frame's commands have executed.
C14_ClearAfterCopyLeavesZero ==
  \A a \in Fields, b \in Fields :
    CopyThenClearSubmitted(a, b) => AllZero(gpu, dynamic_buffers[b])

\* C14 (amended): copyTo is recorded onto the encoder but clear is written
\* through the queue at once, so the clear takes effect first: B is all zero
\* when the frame is submitted, and once the recorded copies have executed
\* every destination channel of B holds the bytes its source channel of A
\* held, over the copied size; if a recorded copy is invalid none executes
\* and B stays zero.
C14_ClearTakesEffectBeforeCopy ==
  \A a \in Fields, b \in Fields :
    CopyThenClearSubmitted(a, b) =>
      LET A == dynamic_buffers[a]
          B == dynamic_buffers[b]
          n == Max(A.dims, B.dims)
      IN  /\ AllZero(last.pre.gpu, B)
          /\ ~last.ok => AllZero(gpu, B)
          /\ last.ok =>
               \A i \in 0..(n - 1) :
                 (i < B.dims - 1 \/ i = n - 1) =>
                   \A x \in 1..A.buffer_size :
                     gpu[B.buffers[Min(i, B.dims - 1)].buffer].data[x]
                       = last.pre.gpu[A.buffers[Min(i, A.dims - 1)].buffer].data[x]

\* A.copyTo(B), B.clear() and the submission happened while A held non-zero
\* bytes: B holds them now.
C14_Witness ==
  \E a \in Fields, b \in Fields :
    /\ CopyThenClearSubmitted(a, b)
    /\ last.ok
    /\ gpu[dynamic_buffers[a].buffers[0].buffer].data[1] # 0
    /\ gpu[dynamic_buffers[b].buffers[0].buffer].data[1] # 0

----------------------------------------------------------------------------
(* Properties of the registry's resolutions *)

SimulationFields == {"velocity", "velocity0", "divergence", "divergence0",
                     "pressure", "pressure0", "vorticity"}
DyeFields == {"dye", "dye0", "rgb_buffer"}

\* The DynamicBuffer f has width w and height h, and its per-channel byte
\* size and every channel buffer it holds are w*h*4 bytes.
SizedAs(f, w, h) ==
  /\ dynamic_buffers[f].w = w
  /\ dynamic_buffers[f].h = h
  /\ dynamic_buffers[f].buffer_size = w * h * 4
  /\ \A i \in 0..(MAX_DIMENSIONS - 1) :
       ValidHandle(gpu, dynamic_buffers[f].buffers[i].buffer) =>
         gpu[dynamic_buffers[f].buffers[i].buffer].size = w * h * 4

\* C15: once dynamic_buffers_init has run, all simulation-resolution
\* DynamicBuffers (velocity, velocity0, divergence, divergence0, pressure,
\* pressure0, vorticity) have the width and height (grid_w, grid_h) and the
\* dye-resolution ones (dye, dye0, and rgb_buffer once set up) have
\* (dye_w, dye_h); each per-channel byte size is width*height*4.
C15_FieldsShareResolution ==
  /\ last.op = "dynamic_buffers_init" =>
       /\ \A f \in SimulationFields : SizedAs(f, settings.grid_w, settings.grid_h)
       /\ \A f \in DyeFields \ {"rgb_buffer"} :
            SizedAs(f, settings.dye_w, settings.dye_h)
  /\ "rgb_buffer" \in inited =>
       SizedAs("rgb_buffer", settings.dye_w, settings.dye_h)

----------------------------------------------------------------------------
(* Properties of dynamic_buffer_destroy *)

\* The handles dynamic_buffer_init stored in the buffers array of db.
Allocated(db) ==
  {db.buffers[i].buffer : i \in 0..(MAX_DIMENSIONS - 1)} \ {NullHandle}

\* C16: dynamic_buffer_destroy releases every channel buffer that
\* dynamic_buffer_init allocated for the DynamicBuffer, each exactly once
\* (and nothing else), and touches no slot outside the 3-entry buffers
\* array, for every channel count init accepts.
C16_DestroyReleasesEachChannelOnce ==
  (last.op = "dynamic_buffer_destroy") =>
    /\ \A k \in 1..Len(last.calls) :
         /\ last.calls[k].index \in 0..(MAX_DIMENSIONS - 1)
         /\ last.calls[k].buffer \in Allocated(LastThis)
    /\ \A i \in 0..(MAX_DIMENSIONS - 1) : <<last.this, i + MAX_DIMENSIONS>> \notin oob
    /\ \A b \in 1..Len(gpu) :
         gpu[b].released = last.pre.gpu[b].released
                             + (IF b \in Allocated(LastThis) THEN 1 ELSE 0)
    /\ \A b \in Allocated(LastThis) : gpu[b].released = 1

\* A 3-channel DynamicBuffer was destroyed while another one stays alive.
C16_Witness ==
  /\ last.op = "dynamic_buffer_destroy"
  /\ LastThis.dims = 3
  /\ Cardinality(Allocated(LastThis)) = 3
  /\ Len(last.calls) = 3
  /\ \E b \in 1..Len(gpu) : gpu[b].released = 0

----------------------------------------------------------------------------
(* Properties of the render program *)

RenderPasses(cmds) == {k \in 1..Len(cmds) : cmds[k].api = "RenderPass"}

\* C17: the render program only reads field data: render_program_dispatch
\* changes no byte of any buffer and no DynamicBuffer or UniformSlot, and
\* the execution of a frame holding only render passes leaves every byte of
\* the rgb_buffer channels and of every other buffer unchanged.
C17_RenderOnlyReads ==
  /\ last.op = "render_program_dispatch" =>
       /\ gpu = last.pre.gpu
       /\ dynamic_buffers = last.pre.dynamic_buffers
       /\ uniforms = last.pre.uniforms
  /\ (last.op = "submit" /\ RenderPasses(last.calls) = 1..Len(last.calls)) =>
       gpu = last.pre.gpu

\* A frame with a render pass bound to the three rgb_buffer channels was
\* executed while they held non-zero data.
C17_Witness ==
  /\ last.op = "submit"
  /\ last.ok
  /\ RenderPasses(last.calls) = 1..Len(last.calls)
  /\ \A i \in 0..2 :
       /\ last.calls[1].bind_group[i + 1] = dynamic_buffers["rgb_buffer"].buffers[i].buffer
       /\ ValidHandle(gpu, dynamic_buffers["rgb_buffer"].buffers[i].buffer)
       /\ gpu[dynamic_buffers["rgb_buffer"].buffers[i].buffer].size > 0
       /\ gpu[dynamic_buffers["rgb_buffer"].buffers[i].buffer].data[1] # 0

----------------------------------------------------------------------------
(* Properties of the boids example *)

FrameRendered == last.op = "example_render" /\ last.ok

\* C18: in every frame of the boids example a single command encoder records
\* the compute pass before the render pass; the compute pass reads particle
\* buffer frame.index % 2 and writes the other one; the render pass draws
\* from the buffer that frame's compute pass wrote; and the buffer written in
\* frame n is the one read by the compute pass of frame n+1.
C18_BoidsPingPong ==
  FrameRendered =>
    /\ Len(last.calls) = 2
    /\ last.calls[1].pass = "compute"
    /\ last.calls[2].pass = "render"
    /\ last.calls[1].encoder = last.calls[2].encoder
    /\ last.calls[1].src = last.pre.index % 2
    /\ last.calls[1].dst = 1 - last.calls[1].src
    /\ last.calls[2].vertex_buffer = last.calls[1].dst
    /\ boids.particle_buffers[last.calls[1].dst]
         = last.pre.particle_buffers[last.calls[1].src] + 1
    /\ boids.particle_buffers[last.calls[1].src]
         = last.pre.particle_buffers[last.calls[1].src]
    /\ last.pre.calls # <<>> =>
         /\ last.calls[1].src = last.pre.calls[1].dst
         /\ boids.particle_buffers[last.calls[2].vertex_buffer] = last.pre.index + 1

\* Frame 3 was rendered after frame 2: its compute pass read buffer 1, which
\* frame 2 wrote, and wrote buffer 0, which was drawn.
C18_Witness ==
  /\ FrameRendered
  /\ last.pre.index = 3
  /\ last.pre.calls # <<>>
  /\ last.pre.calls[1].dst = 1
  /\ last.calls[1].src = 1
  /\ last.calls[2].vertex_buffer = 0
  /\ boids.particle_buffers[0] = 4

----------------------------------------------------------------------------
(* Properties of the Blinn-Phong buffer creation *)

\* C19: create_buffer_with_data returns a buffer with index usage whenever
\* the input data type is Uint16Array or Uint32Array, for every buffer_type
\* argument; for Float32Array or Float64Array input the usage is the one
\* selected by buffer_type.
C19_IntegerDataGivesIndexBuffer ==
  (last.op = "create_buffer_with_data") =>
    IF blinn.array_data_type \in {DataType_Uint16Array, DataType_Uint32Array}
    THEN "Index" \in gpu[blinn.buffer].usage
    ELSE gpu[blinn.buffer].usage
           = get_buffer_usage_flags_from_buffer_type(blinn.buffer_type)

----------------------------------------------------------------------------
(* Properties of the simulation tick *)

\* The passes one tick has handed to its caller.
Issued == last.calls

\* C20: one simulation tick issues its passes in the fixed order advect
\* velocity, apply external forces, vorticity confinement, diffuse velocity,
\* compute divergence, solve pressure (100 Jacobi iterations by default),
\* subtract pressure gradient, advect dye, diffuse dye, write RGB buffer;
\* and the caller sees a tick either fully enqueued or not issued at all.
C20_TickOrderAndAtomicity ==
  /\ last.op = "tick" =>
       /\ Len(Issued) = 109
       /\ Issued[1] = "advect_velocity"
       /\ Issued[2] = "external_forces"
       /\ Issued[3] = "vorticity_confinement"
       /\ Issued[4] = "diffuse_velocity"
       /\ Issued[5] = "divergence"
       /\ \A i \in 6..105 : Issued[i] = "solve_pressure"
       /\ Issued[106] = "subtract_gradient"
       /\ Issued[107] = "advect_dye"
       /\ Issued[108] = "diffuse_dye"
       /\ Issued[109] = "write_rgb"
  /\ sim.pc = 0 => sim.enqueued = <<>>
  /\ last.op \in {"none", "tick"} => sim.pc = 0

\* The second tick returned with its 100 pressure iterations enqueued.
C20_Witness ==
  /\ last.op = "tick"
  /\ sim.ticks = 2
  /\ Len(Issued) = 109
  /\ Issued[105] = "solve_pressure"

----------------------------------------------------------------------------
(* Properties of the boids particle initialisation *)

\* C21: after prepare_uniform_buffers the initial particle data holds an
\* assigned position and velocity (posx, posy, velx, vely) for every one of
\* the NUM_PARTICLES particles (indices 0 .. NUM_PARTICLES-1), and no write
\* of the initialisation loop falls outside the NUM_PARTICLES*4-element
\* array.
C21_EveryParticleInitialised ==
  /\ particles.outside = {}
  /\ particles.done =>
       \A p \in 0..(NUM_PARTICLES - 1) :
         {4 * p + k : k \in 0..3} \subseteq particles.assigned

----------------------------------------------------------------------------
(* Properties of the uniform write *)

\* C22: whenever uniform_update issues a GPU write for an initialised slot,
\* the number of bytes written equals the slot's buffer byte size, element
\* count x 4.
C22_WriteCoversWholeBuffer ==
  (UpdateCalled /\ last.this \in inited /\ Wrote) =>
    last.calls[1].size = last.pre.u.size * 4

\* C23: whenever uniform_update issues a GPU write for an initialised slot
\* of at least one element, the source value pointer is non-NULL and the slot's GPU buffer has been
\* allocated; a NULL value on an always-update or dirty slot never leads to
\* a write from a NULL pointer or into an unallocated buffer.
C23_WriteHasSourceAndTarget ==
  (UpdateCalled /\ last.this \in inited /\ last.pre.u.size >= 1 /\ Wrote) =>
    /\ ~last.calls[1].data.null
    /\ ValidHandle(last.pre.gpu, last.calls[1].buffer)

----------------------------------------------------------------------------
(* Positive simulation sizes *)

\* C26: for a surface of positive width and height, init_sizes always yields
\* strictly positive grid_w, grid_h, dye_w and dye_h, including when the
\* device-limits query fails (both limits treated as 0) or the limits are
\* smaller than the requested sizes, so that no DynamicBuffer is created with
\* a byte size of zero.
C26_SizesArePositive ==
  (/\ SizesDone
   /\ wgpu_context.surface.width >= 1
   /\ wgpu_context.surface.height >= 1) =>
    /\ settings.grid_w > 0
    /\ settings.grid_h > 0
    /\ settings.dye_w > 0
    /\ settings.dye_h > 0

----------------------------------------------------------------------------
(* Channel indices of a copy *)

\* C28: dynamic_buffer_copy_to references only channel buffers that
\* dynamic_buffer_init allocated: in every recorded copy the source index is
\* below the source's dims and the destination index is below the
\* destination's dims, for every pair of DynamicBuffers that passed the dims
\* check of the initialisation, a buffer of 0 channels included.
C28_CopyIndicesWithinDims ==
  (/\ last.op = "dynamic_buffer_copy_to"
   /\ {last.this, last.other} \subseteq inited
   /\ LastThis.dims <= MAX_DIMENSIONS
   /\ LastOther.dims <= MAX_DIMENSIONS) =>
    \A k \in 1..Len(last.calls) :
      /\ ChannelIndex(k - 1, LastThis.dims) < LastThis.dims
      /\ ChannelIndex(k - 1, LastOther.dims) < LastOther.dims
      /\ ValidHandle(last.pre.gpu, last.calls[k].src)
      /\ ValidHandle(last.pre.gpu, last.calls[k].dst)

----------------------------------------------------------------------------
(* Properties of the PBR example *)

\* The overlay update of a frame has completed with the header open.
OverlayUpdated == last.op = "draw_ui" /\ last.pre.header

\* C24: after every completed UI overlay update the GPU uniform buffers
\* agree with the host selections: the material parameter buffer holds the
\* colour of materials[current_material_index] in all 10 object slots, the
\* shared parameter buffer holds the current exposure and gamma, and the
\* model matrix in the object uniform buffer carries the rotation for the
\* selected object index (the extra 45 degrees exactly when object_index is
\* 1).
C24_BuffersFollowSelections ==
  OverlayUpdated =>
    /\ \A x \in 0..(SINGLE_ROW_OBJECT_COUNT - 1) :
         pbr.uniform_buffers.material_params.data[x].color
           = materials[pbr.current_material_index + 1].color
    /\ pbr.uniform_buffers.ubo_params.data.exposure = pbr.exposure
    /\ pbr.uniform_buffers.ubo_params.data.gamma = pbr.gamma
    /\ pbr.uniform_buffers.object.data.rotation
         = (IF pbr.object_index = 1 THEN -45 ELSE -90)

\* C25: current_material_index always stays within the 12-entry materials
\* table and object_index within the 4-entry objects table, and every one of
\* the 12 materials, the last one ("Blue") included, is offered by the
\* Material combo box.
C25_EveryMaterialSelectable ==
  /\ pbr.current_material_index \in 0..(Len(materials) - 1)
  /\ pbr.object_index \in 0..(Len(objects) - 1)
  /\ OverlayUpdated =>
       /\ \A index \in 0..(Len(materials) - 1) : index \in last.pre.offered.material
       /\ \A index \in 0..(Len(objects) - 1) : index \in last.pre.offered.object

\* A frame of the PBR example was recorded.
PbrFrameRecorded == last.op = "pbr_example_render" /\ last.ok

\* The object draws of the recorded frame, in order.
ObjectDraws == SelectSeq(last.calls, LAMBDA c : c.draw = "object")

\* C29: for every object index i in 0 .. 9 the dynamic offset i x 256 equals
\* the byte offset of element i in both material_params_dynamic and
\* object_params_dynamic (each element is exactly 256 bytes), is 256-byte
\* aligned, and the offset plus the bound range (model_size) lies within the
\* uniform buffer; each frame records exactly 10 object draws with pairwise
\* distinct offsets, preceded by the skybox draw exactly when display_skybox
\* is true.
C29_DynamicOffsetsAddressElements ==
  PbrFrameRecorded =>
    /\ Len(ObjectDraws) = SINGLE_ROW_OBJECT_COUNT
    /\ \A k \in 1..Len(ObjectDraws) :
         LET offsets == ObjectDraws[k].dynamic_offsets
         IN  /\ offsets[1] = (k - 1) * SizeofMaterialParamsDynamic
             /\ offsets[2] = (k - 1) * SizeofObjectParamsDynamic
             /\ offsets[1] % ALIGNMENT = 0
             /\ offsets[2] % ALIGNMENT = 0
             /\ offsets[1] + MaterialModelSize
                  <= pbr.uniform_buffers.material_params.size
             /\ offsets[2] + ObjectModelSize
                  <= pbr.uniform_buffers.object_params.size
    /\ \A j, k \in 1..Len(ObjectDraws) :
         j # k => ObjectDraws[j].dynamic_offsets # ObjectDraws[k].dynamic_offsets
    /\ (last.calls[1].draw = "skybox") <=> last.pre.display_skybox
    /\ \A k \in 2..Len(last.calls) : last.calls[k].draw = "object"

\* A frame was recorded with the skybox switched off: ten object draws, the
\* last one at offset 2304.
C29_Witness ==
  /\ PbrFrameRecorded
  /\ ~last.pre.display_skybox
  /\ Len(last.calls) = SINGLE_ROW_OBJECT_COUNT
  /\ last.calls[SINGLE_ROW_OBJECT_COUNT].dynamic_offsets = <<2304, 2304>>

----------------------------------------------------------------------------
(* Initialisation gate of the boids and the PBR example *)

\* C27: in the boids and the PBR example, example_render submits no commands
\* and returns 1 until example_initialize has completed every setup step;
\* prepared becomes true only as the last step of a successful
\* initialisation; and example_initialize with a NULL context returns a
\* failure code, performs no setup and leaves prepared false.
C27_NothingRenderedBeforePrepared ==
  /\ (last.op = "example_render" /\ ~boids.prepared) =>
       /\ last.calls = <<>>
       /\ boids.ret = 1
       /\ boids.frame.index = 0
  /\ boids.prepared =>
       /\ boids.particle_buffers # <<>>
       /\ boids.particle_bind_groups # <<>>
  /\ (last.op = "example_initialize" /\ last.this = "NULL") =>
       /\ boids.ret # 0
       /\ ~boids.prepared
       /\ boids.particle_buffers = <<>>
       /\ boids.particle_bind_groups = <<>>
  /\ (last.op = "pbr_example_render" /\ ~pbr.prepared) =>
       /\ last.calls = <<>>
       /\ pbr.ret = 1
       /\ pbr.pc = "idle"
  /\ pbr.prepared =>
       /\ pbr.setup = SetupSteps
       /\ \A b \in DOMAIN pbr.uniform_buffers : pbr.uniform_buffers[b].allocated
  /\ ~pbr.prepared => pbr.pc = "idle"
  /\ (last.op = "pbr_example_initialize" /\ last.this = "NULL") =>
       /\ pbr.ret # 0
       /\ ~pbr.prepared
       /\ pbr.setup = <<>>
       /\ pbr.uniform_buffers = NoPbr.uniform_buffers

\* The PBR example was initialised with a NULL context and failed, while the
\* boids example is unprepared and its last call returned 1.
C27_Witness ==
  /\ last.op = "pbr_example_initialize"
  /\ last.this = "NULL"
  /\ pbr.ret = 1
  /\ ~pbr.prepared
  /\ boids.ret = 1
  /\ ~boids.prepared

====
